---- MODULE Spec2Model ----
(***************************************************************************)
(* Model of the response decoding / realignment / validation core of the   *)
(* translation pipeline:                                                   *)
(*   src/module/Response/ResponseDecoder.py  (decode, try_realign_to_sources) *)
(*   src/module/Response/ResponseChecker.py  (check, check_lines)          *)
(*                                                                         *)
(* A text line is a sequence of characters; a character is a one-element   *)
(* string.  Characters outside ASCII are written by their code point       *)
(* ("U3002" is the ideographic full stop).                                 *)
(***************************************************************************)
EXTENDS Integers, Sequences, FiniteSets, TLC

VARIABLES
    pc,                      \* position of the call being modelled
    srcs,                    \* source lines given to the call
    dsts,                    \* destination lines given to the call
    items,                   \* ResponseChecker.items: the retry count of each item
    config,                  \* ResponseChecker.config and platform, as read by check_lines
    used_line_realignment,   \* ResponseDecoder._used_line_realignment
    entry_flag,              \* value of the flag when the call was entered
    result,                  \* value returned by the call
    response,                \* decode: the preprocessed response, by lines
    response_think,          \* decode: the thinking text
    used_thinking_fallback,  \* ResponseDecoder._used_thinking_fallback
    used_empty_line_cleanup, \* ResponseDecoder._used_empty_line_cleanup
    raw_response,            \* the raw text given to the scanner or the preprocessor
    used_codeblock_cleanup,  \* ResponseDecoder._used_codeblock_cleanup
    calls,                   \* the calls made, or in progress, on one decoder
    API_KEY_INDEX            \* TaskRequester.API_KEY_INDEX, an attribute of the class

raw_vars == <<raw_response, used_codeblock_cleanup, calls, API_KEY_INDEX>>

decoder_vars == <<response, response_think, used_thinking_fallback, used_empty_line_cleanup,
                  raw_response, used_codeblock_cleanup, calls, API_KEY_INDEX>>

vars == <<pc, srcs, dsts, items, config, used_line_realignment, entry_flag, result,
          response, response_think, used_thinking_fallback, used_empty_line_cleanup,
          raw_response, used_codeblock_cleanup, calls, API_KEY_INDEX>>

\* no raw text is being scanned or preprocessed
NoRawText ==
    /\ raw_response = <<>>
    /\ used_codeblock_cleanup = FALSE
    /\ calls = <<>>
    /\ API_KEY_INDEX = 0

\* no decode call has been made on the decoder
NoDecode ==
    /\ response = <<>>
    /\ response_think = [long |-> FALSE, lines |-> <<>>]
    /\ used_thinking_fallback = FALSE
    /\ used_empty_line_cleanup = FALSE
    /\ NoRawText

(***************************************************************************)
(* Characters and the str methods the code uses.                           *)
(***************************************************************************)
NL == "\n"
SP == " "
EmptyLine == <<>>

Whitespace == {" ", "\n", "\t", "\r", "U3000"}
LowerChars == {"a", "b", "c", "d", "e", "f", "g", "h", "i", "j", "k", "l", "m",
               "n", "o", "p", "q", "r", "s", "t", "u", "v", "w", "x", "y", "z"}
UpperChars == {"A", "B", "C", "D", "E", "F", "G", "H", "I", "J", "K", "L", "M",
               "N", "O", "P", "Q", "R", "S", "T", "U", "V", "W", "X", "Y", "Z"}
DigitChars == {"0", "1", "2", "3", "4", "5", "6", "7", "8", "9"}
AsciiSymbols == {"-", ".", ",", "!", "?", ":", ";", "\"", "'", "{", "}", "[", "]",
                 "(", ")", "*", "#", "=", "+", "/", "_", "~"}
\* U4E2D U6587 U8BF4 U9053 U95EE: han characters (all inside U+4E00..U+9FFF)
HanChars == {"U4E2D", "U6587", "U8BF4", "U9053", "U95EE"}
\* U3042 U3053: hiragana; U30A2 U30B3: katakana
HiraganaChars == {"U3042", "U3053"}
KatakanaChars == {"U30A2", "U30B3"}
\* UD55C UAE00: hangeul syllables
HangeulChars == {"UD55C", "UAE00"}

isspace(c) == c \in Whitespace
isascii(c) == c \in LowerChars \cup UpperChars \cup DigitChars \cup AsciiSymbols
                    \cup {" ", "\n", "\t", "\r"}
isalnum(c) == c \in LowerChars \cup UpperChars \cup DigitChars \cup HanChars
                    \cup HiraganaChars \cup KatakanaChars \cup HangeulChars
islower(c) == c \in LowerChars
is_cjk(c) == c \in HanChars

RECURSIVE lstrip(_)
lstrip(s) == IF s /= <<>> /\ isspace(Head(s)) THEN lstrip(Tail(s)) ELSE s

RECURSIVE rstrip(_)
rstrip(s) ==
    IF s /= <<>> /\ isspace(s[Len(s)]) THEN rstrip(SubSeq(s, 1, Len(s) - 1)) ELSE s

strip(s) == rstrip(lstrip(s))

is_blank(s) == strip(s) = <<>>

contains_newline(s) == \E i \in 1..Len(s) : s[i] = NL

count_newlines(s) == Cardinality({i \in 1..Len(s) : s[i] = NL})

\* str.split on newline: the pieces between newlines, empty pieces kept
RECURSIVE split_newline(_)
split_newline(s) ==
    IF ~contains_newline(s) THEN <<s>>
    ELSE LET k == CHOOSE i \in 1..Len(s) :
                      s[i] = NL /\ \A j \in 1..(i - 1) : s[j] /= NL
         IN <<SubSeq(s, 1, k - 1)>> \o split_newline(SubSeq(s, k + 1, Len(s)))

endswith(s, suffix) ==
    /\ Len(s) >= Len(suffix)
    /\ SubSeq(s, Len(s) - Len(suffix) + 1, Len(s)) = suffix

startswith_any(s, chars) == s /= <<>> /\ s[1] \in chars

RECURSIVE flatten(_)
flatten(ss) == IF ss = <<>> THEN <<>> ELSE Head(ss) \o flatten(Tail(ss))

RECURSIVE sum_newlines(_)
sum_newlines(ls) ==
    IF ls = <<>> THEN 0 ELSE count_newlines(Head(ls)) + sum_newlines(Tail(ls))

non_empty_lines(ls) == SelectSeq(ls, LAMBDA l : ~is_blank(l))

empty_list(n) == [i \in 1..n |-> EmptyLine]

(***************************************************************************)
(* ResponseDecoder: the helpers of try_realign_to_sources.                 *)
(***************************************************************************)

\* the first test of the loop of _remove_garbage_lines: a stripped line under
\* 5 characters with no alphanumeric and no han character, all of it ASCII
is_garbage_line(stripped) ==
    /\ Len(stripped) < 5
    /\ ~\E i \in 1..Len(stripped) : isalnum(stripped[i])
    /\ ~\E i \in 1..Len(stripped) : is_cjk(stripped[i])
    /\ \A i \in 1..Len(stripped) : isascii(stripped[i])

\* the loop of _remove_garbage_lines from position i on; prev is <<prev_line>>
\* once a line has been kept and <<>> (None) before
RECURSIVE remove_garbage_loop(_, _, _, _)
remove_garbage_loop(ls, i, cleaned, prev) ==
    IF i > Len(ls) THEN cleaned
    ELSE LET line == ls[i]
             stripped == strip(line)
         IN IF is_garbage_line(stripped)
               THEN remove_garbage_loop(ls, i + 1, cleaned, prev)
            ELSE IF prev /= <<>> /\ stripped = prev[1] /\ stripped /= <<>>
               THEN remove_garbage_loop(ls, i + 1, cleaned, prev)
            ELSE remove_garbage_loop(ls, i + 1, Append(cleaned, line), <<stripped>>)

_remove_garbage_lines(ls) ==
    IF Len(ls) <= 1 THEN ls ELSE remove_garbage_loop(ls, 1, <<>>, <<>>)

\* the number of blank lines that follow position i without interruption
RECURSIVE empty_run(_, _)
empty_run(ls, j) ==
    IF j <= Len(ls) /\ is_blank(ls[j]) THEN 1 + empty_run(ls, j + 1) ELSE 0

RECURSIVE expand_merged_loop(_, _, _)
expand_merged_loop(ls, i, acc) ==
    IF i > Len(ls) THEN acc
    ELSE LET current == ls[i]
             empty_count == empty_run(ls, i + 1)
             parts == split_newline(current)
             parts_count == Len(parts)
         IN IF contains_newline(current) /\ ~is_blank(current)
               /\ parts_count > 1 /\ empty_count >= parts_count - 1
               THEN expand_merged_loop(ls, i + 1 + (parts_count - 1), acc \o parts)
            ELSE IF contains_newline(current) /\ ~is_blank(current)
               /\ parts_count > 1 /\ empty_count > 0
               /\ empty_count = parts_count - 1
               THEN expand_merged_loop(ls, i + 1 + empty_count, acc \o parts)
            ELSE expand_merged_loop(ls, i + 1, Append(acc, current))

_expand_merged_lines(ls, ss) ==
    IF Len(ls) = 0 THEN ls ELSE expand_merged_loop(ls, 1, <<>>)

abs(n) == IF n < 0 THEN -n ELSE n

_try_expand_all_newlines(ls, ss) ==
    LET src_count == Len(ss)
        dst_count == Len(ls)
        total_newlines == sum_newlines(ls)
        expanded_count == dst_count + total_newlines
        current_diff == abs(dst_count - src_count)
        expanded_diff == abs(expanded_count - src_count)
    IN IF dst_count >= src_count THEN ls
       ELSE IF total_newlines = 0 THEN ls
       ELSE IF expanded_diff >= current_diff THEN ls
       ELSE flatten([i \in 1..Len(ls) |-> split_newline(ls[i])])

_try_truncate_extra_lines(ls, ss) ==
    IF Len(ls) <= Len(ss) THEN ls ELSE SubSeq(ls, 1, Len(ss))

\* TERMINAL_PUNCTUATION of _try_merge_extra_lines and _try_aggressive_merge:
\* U3002 UFF01 UFF1F U2026 are the ideographic stop, the fullwidth ! and ?,
\* the ellipsis; U201D U300D U300F are closing quotes
TERMINAL_PUNCTUATION ==
    {"U3002", "UFF01", "UFF1F", "U2026", "\"", "U201D", "U300D", "U300F", "!", "?", "."}

\* the characters of rule 2 (UFF0C and U3001 are the fullwidth and ideographic comma)
CONTINUATION_START == {"UFF0C", ",", "U3001", "U3002", "."}

\* the endings of rule 3 (UFF1A is the fullwidth colon)
DIALOGUE_ENDINGS ==
    { <<"U8BF4", "UFF1A">>, <<"U9053", "UFF1A">>, <<"U95EE", "U9053", "UFF1A">>,
      <<"s", "a", "y", "s", ":">>, <<"s", "a", "i", "d", ":">> }

\* a score is the fraction num/den (den > 0): the code's float, kept exact
score_less(a, b) == a.num * b.den < b.num * a.den
score_equal(a, b) == a.num * b.den = b.num * a.den

\* the score the loop of _try_merge_extra_lines gives the pair (i, i+1)
merge_score(current, next_line) ==
    LET total_len == Len(current) + Len(next_line)
        bonus == (IF current[Len(current)] \notin TERMINAL_PUNCTUATION THEN 500 ELSE 0)
               + (IF startswith_any(next_line, CONTINUATION_START) THEN 200 ELSE 0)
               + (IF \E e \in DIALOGUE_ENDINGS : endswith(current, e) THEN 100 ELSE 0)
    IN [num |-> 100 + bonus * (total_len + 1), den |-> total_len + 1]

\* the pairs (i, i+1) whose two lines are both non-blank after strip()
mergeable_pairs(ls) ==
    {i \in 1..(Len(ls) - 1) : ~is_blank(ls[i]) /\ ~is_blank(ls[i + 1])}

merge_candidates(ls) ==
    { c \in { [idx |-> i, score |-> merge_score(strip(ls[i]), strip(ls[i + 1]))]
              : i \in mergeable_pairs(ls) } :
        ~score_less(c.score, [num |-> 10, den |-> 1]) }

\* the score the loop of _try_aggressive_merge gives the pair (i, i+1)
aggressive_score(current, next_line) ==
    LET n == (IF Len(current) < 10 THEN 1000 ELSE IF Len(current) < 20 THEN 500 ELSE 0)
           + (IF current[Len(current)] \notin TERMINAL_PUNCTUATION THEN 300 ELSE 0)
           + (IF islower(next_line[1]) THEN 200 ELSE 0)
           + (IF Len(current) + Len(next_line) < 100 THEN 100 ELSE 0)
    IN [num |-> n, den |-> 1]

aggressive_candidates(ls) ==
    { c \in { [idx |-> i, score |-> aggressive_score(strip(ls[i]), strip(ls[i + 1]))]
              : i \in mergeable_pairs(ls) } :
        c.score.num > 0 }

\* candidates.sort(key = (score, -index), reverse = True): a comes before b
sorts_before(a, b) ==
    \/ score_less(b.score, a.score)
    \/ score_equal(a.score, b.score) /\ a.idx < b.idx

\* select_merges without the test merges_done >= diff
RECURSIVE select_merges_without_limit(_, _, _, _, _)
select_merges_without_limit(cands, merged_indices, final_merges, merges_done, diff) ==
    IF cands = {} THEN final_merges
    ELSE LET c == CHOOSE x \in cands : \A y \in cands \ {x} : sorts_before(x, y)
         IN IF c.idx \in merged_indices \/ (c.idx + 1) \in merged_indices
               THEN select_merges_without_limit(cands \ {c}, merged_indices, final_merges,
                                                merges_done, diff)
               ELSE select_merges_without_limit(cands \ {c},
                                                merged_indices \cup {c.idx, c.idx + 1},
                                                final_merges \cup {c.idx}, merges_done + 1,
                                                diff)

\* the greedy loop over the sorted candidates: final_merges as a set
RECURSIVE select_merges(_, _, _, _, _)
select_merges(cands, merged_indices, final_merges, merges_done, diff) ==
    IF cands = {} \/ merges_done >= diff THEN final_merges
    ELSE LET c == CHOOSE x \in cands : \A y \in cands \ {x} : sorts_before(x, y)
         IN IF c.idx \in merged_indices \/ (c.idx + 1) \in merged_indices
               THEN select_merges(cands \ {c}, merged_indices, final_merges,
                                  merges_done, diff)
               ELSE select_merges(cands \ {c}, merged_indices \cup {c.idx, c.idx + 1},
                                  final_merges \cup {c.idx}, merges_done + 1, diff)

\* the "smart join" of two lines
join_lines(current, next_line) ==
    IF /\ current /= <<>> /\ next_line /= <<>>
       /\ isascii(current[Len(current)]) /\ isascii(next_line[1])
       /\ current[Len(current)] /= SP /\ next_line[1] /= SP
       THEN current \o <<SP>> \o next_line
       ELSE current \o next_line

\* the loop that builds result from dsts and final_merges
RECURSIVE apply_merges(_, _, _)
apply_merges(ls, final_merges, i) ==
    IF i > Len(ls) THEN <<>>
    ELSE IF i \in final_merges
       THEN <<join_lines(ls[i], ls[i + 1])>> \o apply_merges(ls, final_merges, i + 2)
       ELSE <<ls[i]>> \o apply_merges(ls, final_merges, i + 1)

RECURSIVE _try_merge_extra_lines(_, _)
_try_merge_extra_lines(ls, ss) ==
    LET src_count == Len(ss)
        dst_count == Len(ls)
        diff == dst_count - src_count
        final_merges == select_merges(merge_candidates(ls), {}, {}, 0, diff)
        merged == apply_merges(ls, final_merges, 1)
    IN IF diff <= 0 THEN ls
       ELSE IF final_merges = {} THEN ls
       ELSE IF Len(merged) > src_count /\ Len(merged) < dst_count
          THEN _try_merge_extra_lines(merged, ss)
       ELSE merged

RECURSIVE _try_aggressive_merge(_, _)
_try_aggressive_merge(ls, ss) ==
    LET src_count == Len(ss)
        dst_count == Len(ls)
        diff == dst_count - src_count
        final_merges == select_merges(aggressive_candidates(ls), {}, {}, 0, diff)
        merged == apply_merges(ls, final_merges, 1)
    IN IF diff <= 0 THEN ls
       ELSE IF final_merges = {} THEN ls
       ELSE IF Len(merged) > src_count /\ Len(merged) < dst_count
          THEN _try_aggressive_merge(merged, ss)
       ELSE merged

(***************************************************************************)
(* ResponseDecoder.try_realign_to_sources.  A call returns the record      *)
(* [dsts |-> the list returned, used |-> whether the call executed         *)
(* self._used_line_realignment = True].                                    *)
(***************************************************************************)
returns(ls, flag) == [dsts |-> ls, used |-> flag]

\* the loop shared by strategies 1, 2 and 3: an empty line at every blank
\* source position, the next non-blank destination line at the others
align_by_position(dst_non_empty, ss) ==
    [i \in 1..Len(ss) |->
        IF is_blank(ss[i]) THEN EmptyLine
        ELSE LET dst_idx == Cardinality({j \in 1..i : ~is_blank(ss[j])})
             IN IF dst_idx <= Len(dst_non_empty) THEN dst_non_empty[dst_idx]
                ELSE EmptyLine]

\* strategy 2: trimmed_dsts.pop() while longer than the source and ending blank
RECURSIVE trim_trailing_empty(_, _)
trim_trailing_empty(ls, src_count) ==
    IF Len(ls) > src_count /\ is_blank(ls[Len(ls)])
       THEN trim_trailing_empty(SubSeq(ls, 1, Len(ls) - 1), src_count)
       ELSE ls

\* strategy 2: a blank line that follows a blank line is skipped
RECURSIVE compact_loop(_, _, _)
compact_loop(ls, i, prev_empty) ==
    IF i > Len(ls) THEN <<>>
    ELSE IF is_blank(ls[i]) /\ prev_empty THEN compact_loop(ls, i + 1, prev_empty)
    ELSE <<ls[i]>> \o compact_loop(ls, i + 1, is_blank(ls[i]))

\* pad_missing with one empty line too many
pad_missing_one_more(ls, missing) == ls \o empty_list(missing + 1)

\* strategy 3: result = dsts + [""] * missing
pad_missing(ls, missing) == ls \o empty_list(missing)

\* realign_by_empty_lines with a padding that has no limit of 3 lines
realign_by_empty_lines_padding_any(ls, ss) ==
    LET src_count == Len(ss)
        dst_count == Len(ls)
        src_empty_indices == {i \in 1..src_count : is_blank(ss[i])}
        src_non_empty_count == src_count - Cardinality(src_empty_indices)
        dst_non_empty == non_empty_lines(ls)
        dst_non_empty_count == Len(dst_non_empty)
        trimmed_dsts == trim_trailing_empty(ls, src_count)
        compacted == compact_loop(ls, 1, FALSE)
        missing == src_count - dst_count
    IN IF dst_non_empty_count = src_non_empty_count
          THEN returns(align_by_position(dst_non_empty, ss), TRUE)
       ELSE IF dst_count > src_count /\ Len(trimmed_dsts) = src_count
          THEN returns(trimmed_dsts, TRUE)
       ELSE IF dst_count > src_count /\ Len(compacted) = src_count
          THEN returns(compacted, TRUE)
       ELSE IF dst_count > src_count /\ dst_non_empty_count = src_non_empty_count
               /\ src_empty_indices /= {}
          THEN returns(align_by_position(dst_non_empty, ss), TRUE)
       ELSE IF dst_count < src_count /\ missing <= Cardinality(src_empty_indices)
               /\ dst_non_empty_count = src_non_empty_count
          THEN returns(align_by_position(dst_non_empty, ss), TRUE)
       ELSE IF dst_count < src_count
          THEN returns(pad_missing(ls, missing), TRUE)
       ELSE returns(ls, FALSE)

\* lines 876-999: the strategies that follow the merges, on the working list
realign_by_empty_lines(ls, ss) ==
    LET src_count == Len(ss)
        dst_count == Len(ls)
        src_empty_indices == {i \in 1..src_count : is_blank(ss[i])}
        src_non_empty_count == src_count - Cardinality(src_empty_indices)
        dst_non_empty == non_empty_lines(ls)
        dst_non_empty_count == Len(dst_non_empty)
        trimmed_dsts == trim_trailing_empty(ls, src_count)
        compacted == compact_loop(ls, 1, FALSE)
        missing == src_count - dst_count
    IN IF dst_non_empty_count = src_non_empty_count
          THEN returns(align_by_position(dst_non_empty, ss), TRUE)
       ELSE IF dst_count > src_count /\ Len(trimmed_dsts) = src_count
          THEN returns(trimmed_dsts, TRUE)
       ELSE IF dst_count > src_count /\ Len(compacted) = src_count
          THEN returns(compacted, TRUE)
       ELSE IF dst_count > src_count /\ dst_non_empty_count = src_non_empty_count
               /\ src_empty_indices /= {}
          THEN returns(align_by_position(dst_non_empty, ss), TRUE)
       ELSE IF dst_count < src_count /\ missing <= Cardinality(src_empty_indices)
               /\ dst_non_empty_count = src_non_empty_count
          THEN returns(align_by_position(dst_non_empty, ss), TRUE)
       ELSE IF dst_count < src_count /\ missing <= 3
          THEN returns(pad_missing(ls, missing), TRUE)
       ELSE returns(ls, FALSE)

\* lines 868-999: strategy 1.7, then the strategies on empty lines
realign_after_aggressive(ls, ss) ==
    LET truncated_dsts == _try_truncate_extra_lines(ls, ss)
    IN IF Len(ls) > Len(ss) /\ Len(truncated_dsts) = Len(ss)
          THEN returns(truncated_dsts, TRUE)
          ELSE realign_by_empty_lines(ls, ss)

\* lines 854-999: strategy 1.6 and what follows
realign_after_merge(ls, ss) ==
    LET aggressive_dsts == _try_aggressive_merge(ls, ss)
    IN IF Len(ls) > Len(ss) /\ Len(aggressive_dsts) < Len(ls)
          THEN IF Len(aggressive_dsts) = Len(ss)
                  THEN returns(aggressive_dsts, TRUE)
                  ELSE realign_after_aggressive(aggressive_dsts, ss)
          ELSE realign_after_aggressive(ls, ss)

\* lines 838-999: strategy 1.5 and what follows
realign_after_expand(ls, ss) ==
    LET merged_dsts == _try_merge_extra_lines(ls, ss)
    IN IF Len(ls) > Len(ss) /\ Len(merged_dsts) < Len(ls)
          THEN IF Len(merged_dsts) = Len(ss)
                  THEN returns(merged_dsts, TRUE)
                  ELSE realign_after_merge(merged_dsts, ss)
          ELSE realign_after_merge(ls, ss)

\* lines 820-999: strategy 0B and what follows
realign_after_merged_lines(ls, ss) ==
    LET dsts_full_expand == _try_expand_all_newlines(ls, ss)
    IN IF Len(ls) < Len(ss)
          THEN IF Len(dsts_full_expand) = Len(ss)
                  THEN returns(dsts_full_expand, TRUE)
               ELSE IF Len(dsts_full_expand) > Len(ls)
                  THEN realign_after_expand(dsts_full_expand, ss)
               ELSE realign_after_expand(ls, ss)
          ELSE realign_after_expand(ls, ss)

\* lines 800-999: strategy 0A and what follows
realign_after_cleaning(ls, ss) ==
    LET dsts_expanded == _expand_merged_lines(ls, ss)
    IN IF Len(dsts_expanded) = Len(ss) THEN returns(dsts_expanded, TRUE)
       ELSE IF Len(dsts_expanded) /= Len(ls)
          THEN realign_after_merged_lines(dsts_expanded, ss)
          ELSE realign_after_merged_lines(ls, ss)

\* try_realign_to_sources without the test of line 785
try_realign_without_length_test(ls, ss) ==
    LET cleaned_dsts == _remove_garbage_lines(ls)
    IN IF Len(ls) > Len(ss) /\ Len(cleaned_dsts) < Len(ls)
          THEN IF Len(cleaned_dsts) = Len(ss)
                  THEN returns(cleaned_dsts, TRUE)
                  ELSE realign_after_cleaning(cleaned_dsts, ss)
          ELSE realign_after_cleaning(ls, ss)

\* lines 781-999
try_realign_to_sources(ls, ss) ==
    LET cleaned_dsts == _remove_garbage_lines(ls)
    IN IF Len(ss) = Len(ls) THEN returns(ls, FALSE)
       ELSE IF Len(ls) > Len(ss) /\ Len(cleaned_dsts) < Len(ls)
          THEN IF Len(cleaned_dsts) = Len(ss)
                  THEN returns(cleaned_dsts, TRUE)
                  ELSE realign_after_cleaning(cleaned_dsts, ss)
          ELSE realign_after_cleaning(ls, ss)

(***************************************************************************)
(* ResponseDecoder.decode.  The response is taken after                    *)
(* _preprocess_response, as the sequence of its physical lines.  A line is *)
(* the record [objects, text]: the JSON objects written on it, in order,   *)
(* or else its plain text.  A JSON object is the sequence of its           *)
(* (key, value) pairs with distinct keys and string values; a key is       *)
(* [name, idx], numeric (int(str(k)) succeeds and gives idx) when name is  *)
(* empty.              The thinking text is [long, lines]: whether it has   *)
(* more than 100 characters, and its lines.                                *)
(***************************************************************************)
NumKey(n) == [name |-> <<>>, idx |-> n]
NameKey(s) == [name |-> s, idx |-> 0]
is_numeric(k) == k.name = <<>>
Pair(k, v) == [key |-> k, value |-> v]
ObjectLine(objs) == [objects |-> objs, text |-> <<>>]
TextLine(t) == [objects |-> <<>>, text |-> t]

RECURSIVE rstrip_newline(_)
rstrip_newline(s) ==
    IF s # <<>> /\ s[Len(s)] = NL THEN rstrip_newline(SubSeq(s, 1, Len(s) - 1)) ELSE s

\* dict[int, str]
empty_dict == <<>>
dict_set(d, k, v) == [x \in DOMAIN d \cup {k} |-> IF x = k THEN v ELSE d[x]]
max_key(d) == CHOOSE k \in DOMAIN d : \A j \in DOMAIN d : j <= k
min_key(d) == CHOOSE k \in DOMAIN d : \A j \in DOMAIN d : k <= j

\* [indexed_dsts.get(i, "") for i in range(max_idx + 1)]
densify(d) ==
    [i \in 1..(max_key(d) + 1) |-> IF (i - 1) \in DOMAIN d THEN d[i - 1] ELSE EmptyLine]

has_key(obj, name) == \E i \in 1..Len(obj) : obj[i].key = NameKey(name)
dict_get(obj, name) ==
    IF has_key(obj, name)
    THEN obj[CHOOSE i \in 1..Len(obj) : obj[i].key = NameKey(name)].value
    ELSE EmptyLine

KEY_SRC == <<"s", "r", "c">>
KEY_DST == <<"d", "s", "t">>
KEY_GENDER == <<"g", "e", "n", "d", "e", "r">>

is_glossary(obj) ==
    Len(obj) = 3 /\ \E name \in {KEY_SRC, KEY_DST, KEY_GENDER} : has_key(obj, name)

glossary_entry(obj) ==
    [src |-> dict_get(obj, KEY_SRC), dst |-> dict_get(obj, KEY_DST),
     info |-> dict_get(obj, KEY_GENDER)]

\* safe_loads(line) is a dict when the line holds one object
line_is_dict(line) == Len(line.objects) = 1

\* the state the passes of decode work on
DecodeState(indexed, ds, gs, preserve) ==
    [indexed_dsts |-> indexed, dsts |-> ds, glossarys |-> gs,
     preserve_trailing_empty |-> preserve]

\* lines 437-448: a single-key object with key k and value v
translation_step(st, k, v) ==
    IF is_numeric(k)
    THEN [st EXCEPT !.indexed_dsts = dict_set(@, k.idx, v)]
    ELSE [st EXCEPT !.dsts = Append(@, v)]

\* lines 450-462
glossary_step(st, obj) ==
    IF is_glossary(obj)
    THEN [st EXCEPT !.glossarys = Append(@, glossary_entry(obj))]
    ELSE st

\* lines 436-462, one parsed object
per_line_object(st, obj) ==
    glossary_step(IF Len(obj) = 1
                  THEN translation_step(st, obj[1].key, rstrip_newline(obj[1].value))
                  ELSE st,
                  obj)

\* lines 431-462, one line
per_line_step(st, line) ==
    IF line_is_dict(line) THEN per_line_object(st, line.objects[1]) ELSE st

RECURSIVE per_line_pass(_, _)
per_line_pass(st, lines) ==
    IF lines = <<>> THEN st
    ELSE per_line_pass(per_line_step(st, Head(lines)), Tail(lines))

\* extract_json_object_strings(response), each string parsed
RECURSIVE all_objects(_)
all_objects(lines) ==
    IF lines = <<>> THEN <<>> ELSE Head(lines).objects \o all_objects(Tail(lines))

\* merge_indexed over the numeric keys of one object (lines 484-515)
RECURSIVE merge_numeric(_, _)
merge_numeric(indexed, obj) ==
    IF obj = <<>> THEN indexed
    ELSE merge_numeric(
             IF is_numeric(Head(obj).key)
             THEN dict_set(indexed, Head(obj).key.idx, rstrip_newline(Head(obj).value))
             ELSE indexed,
             Tail(obj))

\* lines 465-515, one object
scan_step(st, obj) ==
    IF is_glossary(obj)
    THEN [st EXCEPT !.glossarys = Append(@, glossary_entry(obj))]
    ELSE [st EXCEPT !.indexed_dsts = merge_numeric(@, obj)]

RECURSIVE scan_pass(_, _)
scan_pass(st, objs) ==
    IF objs = <<>> THEN st ELSE scan_pass(scan_step(st, Head(objs)), Tail(objs))

\* lines 517-521, 538-541, 610-613
densify_step(st) ==
    IF DOMAIN st.indexed_dsts # {}
    THEN [st EXCEPT !.dsts = densify(st.indexed_dsts), !.preserve_trailing_empty = TRUE]
    ELSE st

\* the non-numeric keys of a whole-document dict append their values (line 537)
RECURSIVE append_named(_, _)
append_named(ds, obj) ==
    IF obj = <<>> THEN ds
    ELSE append_named(
             IF is_numeric(Head(obj).key) THEN ds
             ELSE Append(ds, rstrip_newline(Head(obj).value)),
             Tail(obj))

\* repair.loads(response) is a dict when the response is one object, and no
\* list of strings when it holds several objects or text
document_is_dict(lines) ==
    /\ Len(all_objects(lines)) = 1
    /\ \A i \in 1..Len(lines) : is_blank(lines[i].text)

\* lines 526-541: the whole document is the dict obj
whole_document_dict(st, obj) ==
    densify_step([st EXCEPT !.indexed_dsts = merge_numeric(empty_dict, obj),
                            !.dsts = append_named(@, obj)])

\* lines 523-560
whole_document_pass(st, lines) ==
    IF Len(st.dsts) # 0 \/ ~document_is_dict(lines) THEN st
    ELSE whole_document_dict(st, all_objects(lines)[1])

\* lines 567-608, one object
final_scan_step(st, obj) ==
    IF is_glossary(obj)
    THEN [st EXCEPT !.glossarys = Append(@, glossary_entry(obj))]
    ELSE IF Len(obj) = 1 /\ ~is_numeric(obj[1].key)
         THEN [st EXCEPT !.dsts = Append(@, rstrip_newline(obj[1].value))]
         ELSE [st EXCEPT !.indexed_dsts = merge_numeric(@, obj)]

RECURSIVE final_scan_loop(_, _)
final_scan_loop(st, objs) ==
    IF objs = <<>> THEN st
    ELSE final_scan_loop(final_scan_step(st, Head(objs)), Tail(objs))

\* lines 564-613
final_scan_pass(st, lines) ==
    IF Len(st.dsts) # 0 THEN st
    ELSE densify_step(final_scan_loop([st EXCEPT !.indexed_dsts = empty_dict],
                                      all_objects(lines)))

\* lines 427-515: the state after the per-line pass and the object scan
indexed_pass(lines) ==
    scan_pass(per_line_pass(DecodeState(empty_dict, <<>>, <<>>, FALSE), lines),
              all_objects(lines))

\* lines 427-613: what decode holds before it looks at the thinking text
primary_decode(lines) ==
    final_scan_pass(whole_document_pass(densify_step(indexed_pass(lines)), lines), lines)

(***************************************************************************)
(* _extract_indexed_text_lines: lines of the form <index><separator><text>. *)
(***************************************************************************)
DigitSeq == <<"0", "1", "2", "3", "4", "5", "6", "7", "8", "9">>
digit_value(c) == (CHOOSE i \in 1..10 : DigitSeq[i] = c) - 1
BULLETS == {"-", "*"}
OPEN_BRACKETS == {"[", "(", "U3010"}
CLOSE_BRACKETS == {"]", ")", "U3011"}
INDEX_SEPARATORS == {":", "UFF1A", ".", "UFF0E", "U3001", "-"}
INDEX_CLOSERS == {")", "]"}
MAX_INDEX_DIGITS == 6
MIN_INDEX_HITS == 3
MAX_TEXT_INDEX == 20000
INDEX_SPAN_SLACK == 2

RECURSIVE skip_spaces(_, _)
skip_spaces(s, i) ==
    IF i <= Len(s) /\ isspace(s[i]) THEN skip_spaces(s, i + 1) ELSE i

RECURSIVE skip_digits(_, _)
skip_digits(s, i) ==
    IF i <= Len(s) /\ s[i] \in DigitChars THEN skip_digits(s, i + 1) ELSE i

RECURSIVE int_of(_)
int_of(ds) ==
    IF ds = <<>> THEN 0
    ELSE 10 * int_of(SubSeq(ds, 1, Len(ds) - 1)) + digit_value(ds[Len(ds)])

char_at(s, i, set) == i <= Len(s) /\ s[i] \in set

NoMatch == [ok |-> FALSE, idx |-> 0, value |-> <<>>]

\* the end of a pattern from position i, after the index and the spaces
\* that follow it: an optional closing bracket, a character of seps, the text
match_indexed_tail(s, i, idx, seps) ==
    IF char_at(s, i, CLOSE_BRACKETS) /\ char_at(s, skip_spaces(s, i + 1), seps)
    THEN [ok |-> TRUE, idx |-> idx,
          value |-> strip(SubSeq(s, skip_spaces(s, i + 1) + 1, Len(s)))]
    ELSE IF char_at(s, i, seps)
    THEN [ok |-> TRUE, idx |-> idx, value |-> strip(SubSeq(s, i + 1, Len(s)))]
    ELSE NoMatch

\* the index: the digits s[i..j-1], 1 to 6 of them
match_indexed_digits(s, i, j, seps) ==
    IF j > i /\ j - i <= MAX_INDEX_DIGITS
    THEN match_indexed_tail(s, skip_spaces(s, j), int_of(SubSeq(s, i, j - 1)), seps)
    ELSE NoMatch

match_indexed_from(s, i, seps) == match_indexed_digits(s, i, skip_digits(s, i), seps)

\* the optional bullet and the optional opening bracket
after_bullet(s) == IF char_at(s, 1, BULLETS) THEN skip_spaces(s, 2) ELSE 1
after_open_bracket(s, i) == IF char_at(s, i, OPEN_BRACKETS) THEN i + 1 ELSE i

\* one pattern of line 274 or 275 matched against a stripped line; seps is
\* the character class that follows the index
match_indexed(s, seps) ==
    match_indexed_from(s, skip_spaces(s, after_open_bracket(s, after_bullet(s))), seps)

\* lines 283-289: the second pattern is tried when the first did not match
or_second_pattern(m, s) == IF m.ok THEN m ELSE match_indexed(s, INDEX_CLOSERS)

match_indexed_line(s) == or_second_pattern(match_indexed(s, INDEX_SEPARATORS), s)

\* the text of a physical line
RECURSIVE to_digits(_)
to_digits(n) ==
    IF n < 10 THEN <<DigitSeq[n + 1]>> ELSE to_digits(n \div 10) \o <<DigitSeq[(n % 10) + 1]>>

RECURSIVE escape(_)
escape(v) ==
    IF v = <<>> THEN <<>>
    ELSE (IF Head(v) = NL THEN <<"\\", "n">> ELSE <<Head(v)>>) \o escape(Tail(v))

key_text(k) == IF is_numeric(k) THEN to_digits(k.idx) ELSE k.name

RECURSIVE pairs_text(_)
pairs_text(obj) ==
    IF obj = <<>> THEN <<>>
    ELSE <<"\"">> \o key_text(Head(obj).key) \o <<"\"", ":", "\"">>
         \o escape(Head(obj).value) \o <<"\"">>
         \o (IF Len(obj) > 1 THEN <<",">> ELSE <<>>) \o pairs_text(Tail(obj))

RECURSIVE objects_text(_)
objects_text(objs) ==
    IF objs = <<>> THEN <<>>
    ELSE <<"{">> \o pairs_text(Head(objs)) \o <<"}">> \o objects_text(Tail(objs))

line_text(line) == IF line.objects # <<>> THEN objects_text(line.objects) ELSE line.text

\* lines 291-298: a match recorded in r = [indexed, hits]
indexed_text_add(r, m) ==
    IF m.ok
    THEN [indexed |-> dict_set(r.indexed, m.idx, m.value), hits |-> r.hits + 1]
    ELSE r

\* lines 279-298, one stripped line
indexed_text_step(r, s) ==
    IF s = <<>> THEN r ELSE indexed_text_add(r, match_indexed_line(s))

\* lines 278-298
RECURSIVE indexed_text_loop(_, _)
indexed_text_loop(lines, r) ==
    IF lines = <<>> THEN r
    ELSE indexed_text_loop(Tail(lines),
                           indexed_text_step(r, strip(line_text(Head(lines)))))

\* lines 300-316
indexed_text_result(r) ==
    IF r.hits < MIN_INDEX_HITS THEN empty_dict
    ELSE IF 0 \notin DOMAIN r.indexed /\ 1 \notin DOMAIN r.indexed THEN empty_dict
    ELSE IF max_key(r.indexed) > MAX_TEXT_INDEX THEN empty_dict
    ELSE IF max_key(r.indexed) - min_key(r.indexed) + 1 > r.hits + INDEX_SPAN_SLACK
         THEN empty_dict
    ELSE r.indexed

_extract_indexed_text_lines(lines) ==
    indexed_text_result(indexed_text_loop(lines, [indexed |-> empty_dict, hits |-> 0]))

(***************************************************************************)
(* _extract_from_thinking on the lines of the thinking text: the single-key *)
(* objects fill an index that is absent or blank (lines 1450-1466), and    *)
(* numbered text lines are read when no object gave an index (1510-1513).  *)
(***************************************************************************)
thinking_step(indexed, obj) ==
    IF Len(obj) = 1 /\ is_numeric(obj[1].key)
       /\ (obj[1].key.idx \notin DOMAIN indexed \/ is_blank(indexed[obj[1].key.idx]))
    THEN dict_set(indexed, obj[1].key.idx, rstrip_newline(obj[1].value))
    ELSE indexed

RECURSIVE thinking_loop(_, _)
thinking_loop(indexed, objs) ==
    IF objs = <<>> THEN indexed
    ELSE thinking_loop(thinking_step(indexed, Head(objs)), Tail(objs))

\* lines 1510-1513
or_indexed_text(indexed, lines) ==
    IF DOMAIN indexed # {} THEN indexed ELSE _extract_indexed_text_lines(lines)

_extract_from_thinking(lines) ==
    or_indexed_text(thinking_loop(empty_dict, all_objects(lines)), lines)

max2(a, b) == IF a >= b THEN a ELSE b

\* lines 627-639: the list after the backfill
backfill(ds, t) ==
    [i \in 1..(max2(max_key(t), Len(ds) - 1) + 1) |->
        IF i <= Len(ds) /\ ~is_blank(ds[i]) THEN ds[i]
        ELSE IF (i - 1) \in DOMAIN t /\ ~is_blank(t[i - 1]) THEN t[i - 1]
        ELSE IF i <= Len(ds) THEN ds[i]
        ELSE EmptyLine]

\* filled > 0
backfill_filled(ds, t) ==
    \E i \in 1..(max2(max_key(t), Len(ds) - 1) + 1) :
        /\ ~(i <= Len(ds) /\ ~is_blank(ds[i]))
        /\ (i - 1) \in DOMAIN t /\ ~is_blank(t[i - 1])

\* st with the field used_thinking_fallback
with_thinking(st, ds, used) ==
    [indexed_dsts |-> st.indexed_dsts, dsts |-> ds, glossarys |-> st.glossarys,
     preserve_trailing_empty |-> st.preserve_trailing_empty,
     used_thinking_fallback |-> used]

\* lines 625-641 and 650-656: t is what _extract_from_thinking returned
thinking_apply(st, t) ==
    IF DOMAIN t = {} THEN with_thinking(st, st.dsts, FALSE)
    ELSE IF Len(st.dsts) = 0 THEN with_thinking(st, densify(t), TRUE)
    ELSE IF st.preserve_trailing_empty
         THEN with_thinking(st, backfill(st.dsts, t), backfill_filled(st.dsts, t))
    ELSE with_thinking(st, st.dsts, FALSE)

\* lines 618-656
thinking_pass(st, think) ==
    thinking_apply(st, IF think.long THEN _extract_from_thinking(think.lines)
                       ELSE empty_dict)

\* response.strip().splitlines(): the lines from the first to the last line
\* that is not blank, the first stripped on the left, the last on the right
FENCE == <<"U0060", "U0060", "U0060">>
startswith(s, prefix) == Len(s) >= Len(prefix) /\ SubSeq(s, 1, Len(prefix)) = prefix

response_is_blank(lines) == \A i \in 1..Len(lines) : is_blank(line_text(lines[i]))

not_blank_lines(lines) == {i \in 1..Len(lines) : ~is_blank(line_text(lines[i]))}
first_of(set) == CHOOSE i \in set : \A j \in set : i <= j
last_of(set) == CHOOSE i \in set : \A j \in set : j <= i

lstrip_if(cond, s) == IF cond THEN lstrip(s) ELSE s
rstrip_if(cond, s) == IF cond THEN rstrip(s) ELSE s

stripped_range(lines, first, last) ==
    [i \in 1..(last - first + 1) |->
        rstrip_if(first + i - 1 = last, lstrip_if(i = 1, line_text(lines[first + i - 1])))]

stripped_lines(lines) ==
    stripped_range(lines, first_of(not_blank_lines(lines)), last_of(not_blank_lines(lines)))

\* lines 672-673
is_skipped_line(stripped) ==
    stripped = <<>> \/ startswith(stripped, FENCE) \/ endswith(stripped, FENCE)

RECURSIVE filter_plain_lines(_)
filter_plain_lines(ls) ==
    IF ls = <<>> THEN <<>>
    ELSE IF is_skipped_line(strip(Head(ls))) THEN filter_plain_lines(Tail(ls))
    ELSE <<Head(ls)>> \o filter_plain_lines(Tail(ls))

\* lines 662-679: indexed_text is what _extract_indexed_text_lines returned
plain_text_apply(st, lines, indexed_text) ==
    IF DOMAIN indexed_text # {}
    THEN [st EXCEPT !.dsts = densify(indexed_text), !.preserve_trailing_empty = TRUE]
    ELSE [st EXCEPT !.dsts = filter_plain_lines(stripped_lines(lines))]

\* lines 661-679
plain_text_pass(st, lines) ==
    IF Len(st.dsts) # 0 \/ response_is_blank(lines) THEN st
    ELSE plain_text_apply(st, lines, _extract_indexed_text_lines(lines))

\* _compact_empty_lines, lines 707-710: the trailing blank lines popped
RECURSIVE pop_trailing_blank(_)
pop_trailing_blank(ds) ==
    IF ds # <<>> /\ is_blank(ds[Len(ds)])
    THEN pop_trailing_blank(SubSeq(ds, 1, Len(ds) - 1))
    ELSE ds

\* lines 713-722
RECURSIVE compact_runs(_, _)
compact_runs(ds, prev_empty) ==
    IF ds = <<>> THEN <<>>
    ELSE IF is_blank(Head(ds)) /\ prev_empty
         THEN compact_runs(Tail(ds), prev_empty)
         ELSE <<Head(ds)>> \o compact_runs(Tail(ds), is_blank(Head(ds)))

\* the list returned for ds, and whether _used_empty_line_cleanup was set
compacted_result(ds, compacted) == [dsts |-> compacted, used |-> Len(compacted) # Len(ds)]

\* returns [dsts, used]
_compact_empty_lines(ds, preserve_trailing_empty) ==
    IF Len(ds) <= 1 THEN [dsts |-> ds, used |-> FALSE]
    ELSE compacted_result(ds, compact_runs(IF preserve_trailing_empty THEN ds
                                           ELSE pop_trailing_blank(ds), FALSE))

\* lines 684-686
compact_step(st) ==
    IF Len(st.dsts) > 0
    THEN _compact_empty_lines(st.dsts, st.preserve_trailing_empty)
    ELSE [dsts |-> st.dsts, used |-> FALSE]

\* line 689 and the flags the call leaves
decode_result(st, c) ==
    [dsts |-> c.dsts, glossarys |-> st.glossarys,
     used_thinking_fallback |-> st.used_thinking_fallback,
     used_empty_line_cleanup |-> c.used]

decode_compact(st) == decode_result(st, compact_step(st))

\* decode(response, response_think), lines 319-689
decode(lines, think) ==
    decode_compact(plain_text_pass(thinking_pass(primary_decode(lines), think), lines))

(***************************************************************************)
(* ResponseChecker: constants and the collaborators check_lines calls.     *)
(***************************************************************************)
RETRY_COUNT_THRESHOLD == 2
LINE_COUNT_TOLERANCE == 3
\* KANA_TOLERANCE_RATIO = 0.10 and the 0.80 of the similarity test, in hundredths
KANA_TOLERANCE_PERCENT == 10
SIMILARITY_PERCENT == 80
\* RE_DEGRADATION = (.{1,3})\1{16,}: a unit of at most 3 characters and at
\* least 16 further copies of it
DEGRADATION_UNIT_MAX == 3
DEGRADATION_REPEAT_MIN == 16

UpperSeq == <<"A", "B", "C", "D", "E", "F", "G", "H", "I", "J", "K", "L", "M",
              "N", "O", "P", "Q", "R", "S", "T", "U", "V", "W", "X", "Y", "Z">>
LowerSeq == <<"a", "b", "c", "d", "e", "f", "g", "h", "i", "j", "k", "l", "m",
              "n", "o", "p", "q", "r", "s", "t", "u", "v", "w", "x", "y", "z">>

\* re.IGNORECASE compares characters after case folding
casefold(c) ==
    IF c \in UpperChars
       THEN LowerSeq[CHOOSE k \in 1..Len(UpperSeq) : UpperSeq[k] = c]
       ELSE c

\* re_degradation_search with one copy fewer: 16 occurrences of the unit
re_degradation_search_sixteen(text) ==
    \E i \in 1..Len(text) : \E u \in 1..DEGRADATION_UNIT_MAX :
        LET n == u * DEGRADATION_REPEAT_MIN
        IN /\ i + n - 1 <= Len(text)
           /\ \A k \in 0..(u - 1) : text[i + k] /= NL
           /\ \A k \in 0..(n - 1) :
                  casefold(text[i + k]) = casefold(text[i + (k % u)])

\* RE_DEGRADATION.search(text) is not None
re_degradation_search(text) ==
    \E i \in 1..Len(text) : \E u \in 1..DEGRADATION_UNIT_MAX :
        LET n == u * (1 + DEGRADATION_REPEAT_MIN)
        IN /\ i + n - 1 <= Len(text)
           /\ \A k \in 0..(u - 1) : text[i + k] /= NL
           /\ \A k \in 0..(n - 1) :
                  casefold(text[i + k]) = casefold(text[i + (k % u)])

\* Python "sub in text" for strings
contains(text, sub) ==
    \E i \in 1..(Len(text) - Len(sub) + 1) : SubSeq(text, i, i + Len(sub) - 1) = sub

\* TextHelper.JA.any_hiragana / any_katakana, TextHelper.KO.any_hangeul
any_hiragana(text) == \E i \in 1..Len(text) : text[i] \in HiraganaChars
any_katakana(text) == \E i \in 1..Len(text) : text[i] \in KatakanaChars
any_hangeul(text) == \E i \in 1..Len(text) : text[i] \in HangeulChars

\* LanguageFilter.filter(src, source_language): the line holds no character
\* of the source language, so there is nothing to translate in it
language_has_char(text, language) ==
    \E i \in 1..Len(text) :
        CASE language = "JA" -> text[i] \in HiraganaChars \cup KatakanaChars \cup HanChars
          [] language = "KO" -> text[i] \in HangeulChars \cup HanChars
          [] language = "ZH" -> text[i] \in HanChars
          [] OTHER -> text[i] \in LowerChars \cup UpperChars

LanguageFilter_filter(src, language) == ~language_has_char(src, language)

\* RuleFilter.filter(src): the configured pass-through rule, here the resource
\* names that end in ".png"
RULE_FILTER_SUFFIX == <<".", "p", "n", "g">>
RuleFilter_filter(src) == endswith(src, RULE_FILTER_SUFFIX)

\* rule.sub("", text) for the code-protection rule get_re_sample returns: here
\* the rule matches the placeholder character "#"; None when has_rule is false
rule_sub(text, has_rule) ==
    IF has_rule THEN SelectSeq(text, LAMBDA c : c /= "#") ELSE text

\* TextHelper.check_similarity_by_jaccard(x, y) > SIMILARITY_PERCENT / 100, on
\* the character sets of the two strings
char_set(text) == {text[i] : i \in 1..Len(text)}
jaccard_exceeds(x, y, percent) ==
    LET union == Cardinality(char_set(x) \cup char_set(y))
        intersection == Cardinality(char_set(x) \cap char_set(y))
    IN union > 0 /\ intersection * 100 > percent * union

\* calculate_kana_ratio(text) <= KANA_TOLERANCE_RATIO
kana_count(text) ==
    Cardinality({i \in 1..Len(text) : text[i] \in HiraganaChars \cup KatakanaChars})
kana_ratio_tolerated(text) ==
    IF Len(text) = 0 THEN TRUE
    ELSE kana_count(text) * 100 <= KANA_TOLERANCE_PERCENT * Len(text)

(***************************************************************************)
(* ResponseChecker.check_lines and ResponseChecker.check.                  *)
(* cfg is the record [source_language, target_language, dashscope_deepseek,*)
(* has_rule]: self.config, is_dashscope_deepseek() and whether             *)
(* get_re_sample returns a rule.                                           *)
(***************************************************************************)

\* line 191: "a > 0.80 == True" is the chain (a > 0.80) and (0.80 == True), and
\* True is the number 1
similarity_test(src, dst) ==
    \/ contains(dst, src)
    \/ contains(src, dst)
    \/ (jaccard_exceeds(src, dst, SIMILARITY_PERCENT) /\ SIMILARITY_PERCENT = 100 * 1)

\* lines 190-208: the similarity block, src and dst already stripped of the
\* protected text
check_similarity(src, dst, cfg) ==
    IF ~similarity_test(src, dst) THEN "NONE"
    ELSE IF cfg.source_language = "JA" /\ cfg.target_language = "ZH"
       THEN IF any_hiragana(dst) \/ any_katakana(dst)
               THEN "LINE_ERROR_SIMILARITY" ELSE "NONE"
    ELSE IF cfg.source_language = "KO" /\ cfg.target_language = "ZH"
       THEN IF any_hangeul(dst) THEN "LINE_ERROR_SIMILARITY" ELSE "NONE"
    ELSE "LINE_ERROR_SIMILARITY"

\* check_residue with the similarity block moved before the residue checks
check_residue_similarity_first(src0, dst0, cfg) ==
    LET src == rule_sub(src0, cfg.has_rule)
        dst == rule_sub(dst0, cfg.has_rule)
    IN IF check_similarity(src, dst, cfg) /= "NONE" THEN check_similarity(src, dst, cfg)
       ELSE IF cfg.source_language = "JA" /\ (any_hiragana(dst) \/ any_katakana(dst))
          THEN IF cfg.dashscope_deepseek /\ kana_ratio_tolerated(dst)
                  THEN "NONE" ELSE "LINE_ERROR_KANA"
       ELSE IF cfg.source_language = "KO" /\ any_hangeul(dst)
          THEN "LINE_ERROR_HANGEUL"
       ELSE "NONE"

\* lines 161-188: protected text removed, then kana and hangeul residue
check_residue(src0, dst0, cfg) ==
    LET src == rule_sub(src0, cfg.has_rule)
        dst == rule_sub(dst0, cfg.has_rule)
    IN IF cfg.source_language = "JA" /\ (any_hiragana(dst) \/ any_katakana(dst))
          THEN IF cfg.dashscope_deepseek /\ kana_ratio_tolerated(dst)
                  THEN "NONE" ELSE "LINE_ERROR_KANA"
       ELSE IF cfg.source_language = "KO" /\ any_hangeul(dst)
          THEN "LINE_ERROR_HANGEUL"
       ELSE check_similarity(src, dst, cfg)

\* check_filters with the degradation test moved before the filters
check_filters_degradation_first(src, dst, cfg) ==
    IF ~re_degradation_search(src) /\ re_degradation_search(dst)
       THEN "LINE_ERROR_DEGRADATION"
    ELSE IF RuleFilter_filter(src) THEN "NONE"
    ELSE IF LanguageFilter_filter(src, cfg.source_language) THEN "NONE"
    ELSE check_residue(src, dst, cfg)

\* lines 146-159: the filters, then degradation
check_filters(src, dst, cfg) ==
    IF RuleFilter_filter(src) THEN "NONE"
    ELSE IF LanguageFilter_filter(src, cfg.source_language) THEN "NONE"
    ELSE IF ~re_degradation_search(src) /\ re_degradation_search(dst)
       THEN "LINE_ERROR_DEGRADATION"
    ELSE check_residue(src, dst, cfg)

\* empty_line_tolerated with one more line let through
empty_line_tolerated_one_more(empty_missing_count) ==
    empty_missing_count < LINE_COUNT_TOLERANCE + 1

\* lines 134-144: may one more "source present, translation blank" line pass
empty_line_tolerated(empty_missing_count) ==
    empty_missing_count < LINE_COUNT_TOLERANCE

\* the loop of check_lines over zip(srcs, dsts), from position i on
RECURSIVE check_lines_loop(_, _, _, _, _)
check_lines_loop(ss, ds, cfg, i, empty_missing_count) ==
    IF i > Len(ss) \/ i > Len(ds) THEN <<>>
    ELSE LET src == strip(ss[i])
             dst == strip(ds[i])
         IN IF src /= <<>> /\ dst = <<>>
               THEN IF empty_line_tolerated(empty_missing_count)
                       THEN <<"NONE">>
                            \o check_lines_loop(ss, ds, cfg, i + 1, empty_missing_count + 1)
                       ELSE <<"LINE_ERROR_EMPTY_LINE">>
                            \o check_lines_loop(ss, ds, cfg, i + 1, empty_missing_count)
               ELSE <<check_filters(src, dst, cfg)>>
                    \o check_lines_loop(ss, ds, cfg, i + 1, empty_missing_count)

check_lines(ss, ds, cfg) == check_lines_loop(ss, ds, cfg, 1, 0)

all_of(tag, n) == [i \in 1..n |-> tag]

\* is_fail_data with v.strip() == "" in place of v == ""
is_fail_data_stripped(ds) == Len(ds) = 0 \/ \A i \in 1..Len(ds) : is_blank(ds[i])

\* line 73: len(dsts) == 0 or all(v == "" for v in dsts)
is_fail_data(ds) == Len(ds) = 0 \/ \A i \in 1..Len(ds) : ds[i] = EmptyLine

\* is_retry_bypass with > in place of >=
is_retry_bypass_strict(its) == Len(its) = 1 /\ its[1] > RETRY_COUNT_THRESHOLD

\* line 77: a single item that was already retried alone
is_retry_bypass(its) == Len(its) = 1 /\ its[1] >= RETRY_COUNT_THRESHOLD

\* is_paddable with < in place of <=
is_paddable_strict(missing_lines) ==
    0 < missing_lines /\ missing_lines < LINE_COUNT_TOLERANCE

\* line 84: the shortfall the checker pads itself
is_paddable(missing_lines) == 0 < missing_lines /\ missing_lines <= LINE_COUNT_TOLERANCE

\* pad_destination with one line too many
pad_destination_one_more(ds, missing_lines) == ds \o empty_list(missing_lines + 1)

\* pad_destination with one line too few
pad_destination_one_less(ds, missing_lines) == ds \o empty_list(missing_lines - 1)

\* line 86: dsts = dsts + [""] * missing_lines
pad_destination(ds, missing_lines) == ds \o empty_list(missing_lines)

\* check(srcs, dsts, text_type) with self.items = its (the retry count of each
\* item); returns [checks, dsts]
check(ss, ds, its, cfg) ==
    LET missing_lines == Len(ss) - Len(ds)
        padded == IF Len(ss) /= Len(ds) THEN pad_destination(ds, missing_lines) ELSE ds
        checks == check_lines(ss, padded, cfg)
    IN IF is_fail_data(ds)
          THEN [checks |-> all_of("FAIL_DATA", Len(ss)), dsts |-> ds]
       ELSE IF is_retry_bypass(its)
          THEN [checks |-> all_of("NONE", Len(ss)), dsts |-> ds]
       ELSE IF Len(ss) /= Len(ds) /\ ~is_paddable(missing_lines)
          THEN [checks |-> all_of("FAIL_LINE_COUNT", Len(ss)), dsts |-> ds]
       ELSE IF \E i \in 1..Len(checks) : checks[i] /= "NONE"
          THEN [checks |-> checks, dsts |-> padded]
       ELSE [checks |-> all_of("NONE", Len(ss)), dsts |-> padded]

(***************************************************************************)
(* Bounds and the inputs drawn for a call.                                 *)
(***************************************************************************)
MaxSrcs == 5
MaxDsts == 5

SeqsUpTo(S, n) == UNION {[1..k -> S] : k \in 0..n}

\* destination lines: empty, a symbol run, a short value holding two lines,
\* and a 10-character sentence that ends in a full stop
RealignDstLines ==
    { <<>>, <<"-">>, <<"a", "\n", "b">>,
      <<"a", "b", "c", "d", "e", "f", "g", "h", "i", ".">> }

\* source lines: try_realign_to_sources reads only whether a line is blank
RealignSrcLines == { <<>>, <<"s">> }

MaxCheckSrcs == 5
MaxCheckDsts == 3
MaxRetry == 2
MaxLines == 4

Config(source, target, dashscope, rule) ==
    [source_language |-> source, target_language |-> target,
     dashscope_deepseek |-> dashscope, has_rule |-> rule]

NoConfig == Config("EN", "ZH", FALSE, FALSE)

\* check: source lines blank or not, destination lines empty, whitespace-only
\* or translated
CheckSrcLines == { <<>>, <<" ">>, <<"s">> }
CheckDstLines == { <<>>, <<" ">>, <<"d">> }
CheckConfigs == { Config("EN", "ZH", FALSE, FALSE), Config("JA", "ZH", FALSE, FALSE) }
\* self.items: one item or two, the first retried 0..MaxRetry times
CheckItems == {<<r>> : r \in 0..MaxRetry} \cup {<<r, 0>> : r \in 0..MaxRetry}

(***************************************************************************)
(* One call of try_realign_to_sources on a decoder whose flags were reset. *)
(***************************************************************************)
InitRealign ==
    /\ pc = "realign_call"
    /\ srcs \in SeqsUpTo(RealignSrcLines, MaxSrcs)
    /\ dsts \in SeqsUpTo(RealignDstLines, MaxDsts)
    /\ items = <<>>
    /\ config = NoConfig
    /\ used_line_realignment = FALSE
    /\ entry_flag = FALSE
    /\ result = <<>>
    /\ NoDecode

TryRealign ==
    /\ pc = "realign_call"
    /\ LET r == try_realign_to_sources(dsts, srcs)
       IN /\ result' = r.dsts
          /\ used_line_realignment' = (used_line_realignment \/ r.used)
    /\ entry_flag' = used_line_realignment
    /\ pc' = "realign_return"
    /\ UNCHANGED <<srcs, dsts, items, config>>
    /\ UNCHANGED decoder_vars

NextRealign == TryRealign

SpecRealign == InitRealign /\ [][NextRealign]_vars

(***************************************************************************)
(* One call of ResponseChecker.check.                                      *)
(***************************************************************************)
InitCheck ==
    /\ pc = "check_call"
    /\ srcs \in SeqsUpTo(CheckSrcLines, MaxCheckSrcs) \ {<<>>}
    /\ dsts \in SeqsUpTo(CheckDstLines, MaxCheckDsts)
    /\ items \in CheckItems
    /\ config \in CheckConfigs
    /\ used_line_realignment = FALSE
    /\ entry_flag = FALSE
    /\ result = <<>>
    /\ NoDecode

Check ==
    /\ pc = "check_call"
    /\ result' = check(srcs, dsts, items, config)
    /\ pc' = "check_return"
    /\ UNCHANGED <<srcs, dsts, items, config, used_line_realignment, entry_flag>>
    /\ UNCHANGED decoder_vars

NextCheck == Check

SpecCheck == InitCheck /\ [][NextCheck]_vars

(***************************************************************************)
(* One call of ResponseChecker.check_lines on lists of equal length.       *)
(***************************************************************************)
Degenerate == [i \in 1..17 |-> "x"]
\* the same character 16 times
SixteenTimes == [i \in 1..16 |-> "x"]
PngName == <<"a", ".", "p", "n", "g">>

\* the (source, destination) pairs of a line
LinePairs ==
    { <<<<"s">>, <<>>>>,                    \* translation missing
      <<PngName, <<>>>>,                    \* rule-filtered source, translation missing
      <<PngName, Degenerate>>,              \* rule-filtered source, collapsed output
      <<<<"a", "b">>, Degenerate>>,         \* collapsed output
      <<<<"a", "b">>, SixteenTimes>>,       \* one repetition short of it
      <<<<"U3042">>, <<"U3042">>>>,         \* kana echoed
      <<<<"a", "b">>, <<"b", "a">>>>,       \* same characters, neither contains the other
      <<<<"s">>, <<"s">>>>,                 \* echoed
      <<<<"s">>, <<"d">>>>,                 \* translated
      <<<<>>, <<>>>> }                      \* blank line kept blank

CheckLinesConfigs ==
    { Config("EN", "ZH", FALSE, FALSE), Config("EN", "ZH", FALSE, TRUE),
      Config("JA", "ZH", FALSE, FALSE), Config("JA", "ZH", TRUE, FALSE),
      Config("JA", "EN", FALSE, FALSE), Config("KO", "ZH", FALSE, FALSE) }

InitCheckLines ==
    /\ pc = "check_lines_call"
    /\ \E ps \in SeqsUpTo(LinePairs, MaxLines) :
          /\ srcs = [i \in 1..Len(ps) |-> ps[i][1]]
          /\ dsts = [i \in 1..Len(ps) |-> ps[i][2]]
    /\ items = <<>>
    /\ config \in CheckLinesConfigs
    /\ used_line_realignment = FALSE
    /\ entry_flag = FALSE
    /\ result = <<>>
    /\ NoDecode

CheckLines ==
    /\ pc = "check_lines_call"
    /\ result' = check_lines(srcs, dsts, config)
    /\ pc' = "check_lines_return"
    /\ UNCHANGED <<srcs, dsts, items, config, used_line_realignment, entry_flag>>
    /\ UNCHANGED decoder_vars

NextCheckLines == CheckLines

SpecCheckLines == InitCheckLines /\ [][NextCheckLines]_vars

(***************************************************************************)
(* One call of ResponseDecoder.decode.                                     *)
(***************************************************************************)
MaxIndex == 5
MaxResponseLines == 3

Translation(i, v) == <<Pair(NumKey(i), v)>>
GlossaryObject ==
    <<Pair(NameKey(KEY_SRC), <<"n">>), Pair(NameKey(KEY_DST), <<"m">>),
      Pair(NameKey(KEY_GENDER), <<"f">>)>>

\* the lines of a response: a translation for each index, empty values, a
\* second value for index 0, a value ending in a newline, an object with two
\* numeric keys, two objects on one line, a glossary entry, a single key
\* that is not a number, numbered text, plain text and a blank line
ResponseLines ==
    { ObjectLine(<<Translation(i, <<"a">>)>>) : i \in 0..MaxIndex }
    \cup { ObjectLine(<<Translation(1, <<>>)>>),
           ObjectLine(<<Translation(2, <<>>)>>),
           ObjectLine(<<Translation(0, <<"b">>)>>),
           ObjectLine(<<Translation(1, <<"c", "\n">>)>>),
           ObjectLine(<< <<Pair(NumKey(0), <<"d">>), Pair(NumKey(2), <<"e">>)>> >>),
           ObjectLine(<<Translation(0, <<"f">>), Translation(0, <<"g">>)>>),
           ObjectLine(<<GlossaryObject>>),
           ObjectLine(<< <<Pair(NameKey(<<"k">>), <<"v">>)>> >>),
           TextLine(<<"0", ":", " ", "x">>),
           TextLine(<<"1", ".", " ", "y">>),
           TextLine(<<"(", "2", ")", " ", "z">>),
           TextLine(<<" ", "w">>),
           TextLine(<<>>) }

ThinkingTexts ==
    { [long |-> FALSE, lines |-> <<ObjectLine(<<Translation(1, <<"t">>)>>)>>],
      [long |-> TRUE, lines |-> <<ObjectLine(<<Translation(1, <<"t">>)>>),
                                  ObjectLine(<<Translation(0, <<"u">>)>>),
                                  ObjectLine(<<Translation(2, <<>>)>>)>>],
      [long |-> TRUE, lines |-> <<ObjectLine(<<Translation(MaxIndex + 1, <<"t">>)>>)>>] }

InitDecode ==
    /\ pc = "decode_call"
    /\ srcs = <<>>
    /\ dsts = <<>>
    /\ items = <<>>
    /\ config = NoConfig
    /\ used_line_realignment \in BOOLEAN
    /\ entry_flag = FALSE
    /\ result = <<>>
    /\ response \in SeqsUpTo(ResponseLines, MaxResponseLines)
    /\ response_think \in ThinkingTexts
    /\ used_thinking_fallback = FALSE
    /\ used_empty_line_cleanup = FALSE
    /\ NoRawText

Decode ==
    /\ pc = "decode_call"
    /\ LET r == decode(response, response_think)
       IN /\ result' = [dsts |-> r.dsts, glossarys |-> r.glossarys]
          /\ used_thinking_fallback' = r.used_thinking_fallback
          /\ used_empty_line_cleanup' = r.used_empty_line_cleanup
    /\ used_line_realignment' = FALSE
    /\ entry_flag' = used_line_realignment
    /\ pc' = "decode_return"
    /\ UNCHANGED <<srcs, dsts, items, config, response, response_think>>
    /\ UNCHANGED raw_vars

NextDecode == Decode

SpecDecode == InitDecode /\ [][NextDecode]_vars

(***************************************************************************)
(* Claims about ResponseDecoder.decode (SpecDecode).                       *)
(***************************************************************************)
IndexMap == indexed_pass(response).indexed_dsts

\* C2: a response whose decoded index map is not empty, with maximum index
\* M, decodes (no thinking text being read) to a list of length M + 1 that
\* holds at position i the value recorded for index i and the empty string
\* at every absent index.
C2_DensifiedLength ==
    (pc = "decode_return" /\ ~response_think.long /\ DOMAIN IndexMap # {})
        => /\ Len(result.dsts) = max_key(IndexMap) + 1
           /\ \A i \in 0..max_key(IndexMap) :
                 result.dsts[i + 1] = IF i \in DOMAIN IndexMap THEN IndexMap[i] ELSE EmptyLine

(***************************************************************************)
(* Claims about try_realign_to_sources (SpecRealign).                      *)
(***************************************************************************)

\* C1: whenever a call of try_realign_to_sources that was entered with the
\* realignment flag unset sets used_line_realignment, the list it returns has
\* exactly len(srcs) elements.
C1_FlagImpliesAligned ==
    (pc = "realign_return" /\ ~entry_flag /\ used_line_realignment)
        => Len(result) = Len(srcs)

\* C1 witness: a call on lists of different lengths that set the flag and
\* returned a list that differs from the one it was given
C1_Witness ==
    /\ pc = "realign_return"
    /\ ~entry_flag /\ used_line_realignment
    /\ Len(dsts) > Len(srcs) /\ Len(srcs) >= 2
    /\ Len(result) = Len(srcs)
    /\ result /= SubSeq(dsts, 1, Len(srcs))

\* C3: if no realignment strategy produces a list of length len(srcs), the
\* call returns a list equal to the dsts it was given and does not set
\* used_line_realignment.
C3_UnalignedReturnsInput ==
    (pc = "realign_return" /\ Len(result) /= Len(srcs))
        => (result = dsts /\ used_line_realignment = entry_flag)

(***************************************************************************)
(* Claims about ResponseChecker.check (SpecCheck).                         *)
(***************************************************************************)
AllTagged(cs, tag, n) == cs = [i \in 1..n |-> tag]
HasTag(cs, tag) == \E i \in 1..Len(cs) : cs[i] = tag
SingleRetriedItem == Len(items) = 1 /\ items[1] >= 2
AllEmptyStrings(ds) == \A i \in 1..Len(ds) : ds[i] = <<>>
AllBlank(ds) == \A i \in 1..Len(ds) : is_blank(ds[i])

\* C4 as stated: when the batch is a single item whose retry count is >= 2,
\* check returns NONE for every source position for any destination list
\* whatsoever, an empty or all-blank one included.
C4_BypassAlwaysNone ==
    (pc = "check_return" /\ SingleRetriedItem)
        => AllTagged(result.checks, "NONE", Len(srcs))

\* C4 amended: for a single item whose retry count is >= 2, check returns NONE
\* for every source position and the destination untouched, whatever the
\* destination (wrong length or whitespace-only included), unless the
\* destination is empty or made of empty strings only: that one is FAIL_DATA.
C4_BypassUnlessFailData ==
    (pc = "check_return" /\ SingleRetriedItem)
        => IF dsts = <<>> \/ AllEmptyStrings(dsts)
              THEN AllTagged(result.checks, "FAIL_DATA", Len(srcs))
              ELSE AllTagged(result.checks, "NONE", Len(srcs)) /\ result.dsts = dsts

\* C4 witness: a retried single item with a destination longer than the
\* source is accepted as it is
C4_Witness ==
    /\ pc = "check_return"
    /\ SingleRetriedItem
    /\ Len(dsts) > Len(srcs)
    /\ ~AllBlank(dsts)
    /\ AllTagged(result.checks, "NONE", Len(srcs))
    /\ result.dsts = dsts

\* C8 as stated: check returns FAIL_DATA for every source position exactly
\* when the destination list is empty or every destination line is blank
\* (empty or whitespace-only).
C8_FailDataIffAllBlank ==
    pc = "check_return"
        => (AllTagged(result.checks, "FAIL_DATA", Len(srcs))
                <=> (dsts = <<>> \/ AllBlank(dsts)))

\* C8 amended: check returns FAIL_DATA for every source position exactly when
\* the destination list is empty or every destination line is the empty
\* string (a whitespace-only line does not count); a destination with a
\* non-empty line never gets a FAIL_DATA tag.
C8_FailDataIffAllEmpty ==
    pc = "check_return"
        => /\ AllTagged(result.checks, "FAIL_DATA", Len(srcs))
                <=> (dsts = <<>> \/ AllEmptyStrings(dsts))
           /\ HasTag(result.checks, "FAIL_DATA") => (dsts = <<>> \/ AllEmptyStrings(dsts))

\* C8 witness: a destination of whitespace-only lines is checked line by line
\* and not reported as FAIL_DATA
C8_Witness ==
    /\ pc = "check_return"
    /\ dsts /= <<>> /\ AllBlank(dsts) /\ ~AllEmptyStrings(dsts)
    /\ ~HasTag(result.checks, "FAIL_DATA")
    /\ ~SingleRetriedItem

\* C9 as stated: check classifies a batch as FAIL_LINE_COUNT only when the
\* source and destination line counts differ by more than 3; a mismatch of at
\* most 3 lines in either direction is never FAIL_LINE_COUNT.
C9_LineCountOnlyBeyondTolerance ==
    (pc = "check_return" /\ HasTag(result.checks, "FAIL_LINE_COUNT"))
        => abs(Len(srcs) - Len(dsts)) > 3

\* C9 amended: a batch that is neither FAIL_DATA nor retry-bypassed is
\* classified FAIL_LINE_COUNT exactly when the destination is longer than the
\* source (by any number of lines) or shorter by more than 3 lines; a
\* shortfall of 1 to 3 lines is never FAIL_LINE_COUNT.
C9_LineCountLongerOrBeyondTolerance ==
    pc = "check_return"
        => (HasTag(result.checks, "FAIL_LINE_COUNT")
                <=> /\ ~(dsts = <<>> \/ AllEmptyStrings(dsts))
                    /\ ~SingleRetriedItem
                    /\ (Len(dsts) > Len(srcs) \/ Len(srcs) - Len(dsts) > 3))

\* C9 witness: a destination one line longer than the source fails the batch
C9_Witness ==
    /\ pc = "check_return"
    /\ Len(dsts) = Len(srcs) + 1
    /\ AllTagged(result.checks, "FAIL_LINE_COUNT", Len(srcs))

\* C10: when the destination is shorter than the source by 1 to 3 lines (and
\* the batch is neither FAIL_DATA nor retry-bypassed), check appends exactly
\* that many empty strings, runs the per-line checks on the padded list and
\* returns a destination of len(srcs) lines instead of failing the batch.
C10_ShortfallIsPadded ==
    (/\ pc = "check_return"
     /\ ~(dsts = <<>> \/ AllEmptyStrings(dsts))
     /\ ~SingleRetriedItem
     /\ Len(srcs) - Len(dsts) \in 1..3)
        => /\ result.dsts = dsts \o [i \in 1..(Len(srcs) - Len(dsts)) |-> <<>>]
           /\ Len(result.dsts) = Len(srcs)
           /\ Len(result.checks) = Len(srcs)
           /\ ~HasTag(result.checks, "FAIL_LINE_COUNT")
           /\ ~HasTag(result.checks, "FAIL_DATA")
           /\ result.checks = check_lines(srcs, result.dsts, config)

\* C10 witness: three lines were padded and the per-line checks then ran on
\* them (the fourth missing translation is reported)
C10_Witness ==
    /\ pc = "check_return"
    /\ ~SingleRetriedItem
    /\ Len(srcs) - Len(dsts) = 3
    /\ Len(result.dsts) = Len(srcs)
    /\ HasTag(result.checks, "LINE_ERROR_EMPTY_LINE")

(***************************************************************************)
(* Claims about ResponseChecker.check_lines (SpecCheckLines).              *)
(***************************************************************************)
\* the line as check_lines reads it
Src(i) == strip(srcs[i])
Dst(i) == strip(dsts[i])
FilterExempt(i) ==
    RuleFilter_filter(Src(i)) \/ LanguageFilter_filter(Src(i), config.source_language)
HasKana(text) == any_hiragana(text) \/ any_katakana(text)
Returned == pc = "check_lines_return"

\* C5 as stated: a line whose source matches the rule filter or the language
\* filter is classified NONE whatever its destination is, a blank destination
\* beyond the tolerated count and a degenerate destination included.
C5_FilterExemptAlwaysNone ==
    Returned => \A i \in 1..Len(srcs) : FilterExempt(i) => result[i] = "NONE"

\* the lines before line i whose source is not blank and whose destination is
MissingBefore(i) == {j \in 1..(i - 1) : Src(j) /= <<>> /\ Dst(j) = <<>>}

\* C5 amended: a line whose source matches the rule filter or the language
\* filter and whose destination is not blank is classified NONE whatever the
\* destination holds (a degenerate run included); when its source is not
\* blank and its destination is blank the empty-line rule runs first, and the
\* line is LINE_ERROR_EMPTY_LINE once 3 earlier lines of the call had a
\* source and a blank destination, NONE before that.
C5_FilterExemptUnlessBlank ==
    Returned => \A i \in 1..Len(srcs) :
        FilterExempt(i) =>
            IF Src(i) /= <<>> /\ Dst(i) = <<>> /\ Cardinality(MissingBefore(i)) >= 3
               THEN result[i] = "LINE_ERROR_EMPTY_LINE"
               ELSE result[i] = "NONE"

\* C5 witness: a rule-filtered source with a degenerate destination passes
C5_Witness ==
    /\ Returned
    /\ \E i \in 1..Len(srcs) :
          /\ RuleFilter_filter(Src(i))
          /\ re_degradation_search(Dst(i)) /\ ~re_degradation_search(Src(i))
          /\ result[i] = "NONE"

ReachesSimilarity(i) ==
    LET src == rule_sub(Src(i), config.has_rule)
        dst == rule_sub(Dst(i), config.has_rule)
    IN /\ ~(Src(i) /= <<>> /\ Dst(i) = <<>>)
       /\ ~FilterExempt(i)
       /\ ~(~re_degradation_search(Src(i)) /\ re_degradation_search(Dst(i)))
       /\ ~(config.source_language = "JA" /\ HasKana(dst))
       /\ ~(config.source_language = "KO" /\ any_hangeul(dst))

\* C7: for a language pair that is neither JA->ZH nor KO->ZH, a line that
\* reaches the similarity check and whose destination neither contains nor is
\* contained in the source, but whose Jaccard similarity with the source
\* exceeds 0.80, is classified LINE_ERROR_SIMILARITY.
C7_JaccardIsSimilarity ==
    Returned => \A i \in 1..Len(srcs) :
        LET src == rule_sub(Src(i), config.has_rule)
            dst == rule_sub(Dst(i), config.has_rule)
        IN (/\ ~(config.source_language \in {"JA", "KO"} /\ config.target_language = "ZH")
            /\ ReachesSimilarity(i)
            /\ ~contains(dst, src) /\ ~contains(src, dst)
            /\ jaccard_exceeds(src, dst, 80))
               => result[i] = "LINE_ERROR_SIMILARITY"

(***************************************************************************)
(* Claims about the merge of indexed objects in decode (SpecDecode).       *)
(***************************************************************************)
\* the values one object gives for index i
RECURSIVE pair_values(_, _)
pair_values(obj, i) ==
    IF obj = <<>> THEN <<>>
    ELSE (IF Head(obj).key = NumKey(i) THEN <<Head(obj).value>> ELSE <<>>)
             \o pair_values(Tail(obj), i)

\* the values the translation objects of the response give for index i, in
\* the order of the response
RECURSIVE index_values(_, _)
index_values(objs, i) ==
    IF objs = <<>> THEN <<>>
    ELSE (IF is_glossary(Head(objs)) THEN <<>> ELSE pair_values(Head(objs), i))
             \o index_values(Tail(objs), i)

Occurrences(i) == index_values(all_objects(response), i)
WrittenTwice(i) ==
    \E a, b \in 1..Len(Occurrences(i)) : a < b /\ Occurrences(i)[a] # Occurrences(i)[b]
LaterValue(i) == rstrip_newline(Occurrences(i)[Len(Occurrences(i))])

\* the index map that decode merges (lines 427-515) holds, for an index that
\* two translation objects write with different values, the later value
MergedMapLastWins ==
    pc = "decode_return"
        => \A i \in 0..MaxIndex :
              WrittenTwice(i) => i \in DOMAIN IndexMap /\ IndexMap[i] = LaterValue(i)

\* C11: when the response holds two translation objects for the same index
\* with different values (single-key or multi-key, on one line or on two),
\* the list decode returns (no thinking text being read) holds at that index
\* the value of the later occurrence, trailing newlines stripped.
C11_LaterValueReturned ==
    (pc = "decode_return" /\ ~response_think.long)
        => \A i \in 0..MaxIndex :
              WrittenTwice(i)
                  => i + 1 <= Len(result.dsts) /\ result.dsts[i + 1] = LaterValue(i)

(***************************************************************************)
(* Claims about the thinking backfill of decode (SpecDecode).              *)
(***************************************************************************)
\* what decode holds before it reads the thinking text (line 618), and what
\* it holds after the backfill (line 656)
Primary == primary_decode(response).dsts
Backfilled == thinking_pass(primary_decode(response), response_think).dsts

\* the backfill of lines 618-656 leaves every non-blank primary value at its
\* position
BackfillKeepsPrimary ==
    pc = "decode_return"
        => \A i \in 1..Len(Primary) :
              ~is_blank(Primary[i]) => i <= Len(Backfilled) /\ Backfilled[i] = Primary[i]

\* C12: when decode reads a thinking text, every position whose primary
\* value is not blank holds that value in the returned list.
C12_PrimaryValueReturned ==
    (pc = "decode_return" /\ response_think.long)
        => \A i \in 1..Len(Primary) :
              ~is_blank(Primary[i]) => i <= Len(result.dsts) /\ result.dsts[i] = Primary[i]

(***************************************************************************)
(* Claims about glossary objects in decode (SpecDecode).                   *)
(***************************************************************************)
OnlyGlossaryObjects ==
    /\ all_objects(response) # <<>>
    /\ \A i \in 1..Len(all_objects(response)) : is_glossary(all_objects(response)[i])

\* the per-line pass and the object scan (lines 431-515) take no index and
\* no destination line from a glossary object
GlossaryKeptApartByScan ==
    (pc = "decode_return" /\ OnlyGlossaryObjects)
        => /\ indexed_pass(response).dsts = <<>>
           /\ DOMAIN indexed_pass(response).indexed_dsts = {}

\* C13: a response whose JSON objects are all glossary entries gives the
\* parsing passes of decode (lines 427-613) no destination line and no index
\* of the indexed map: its objects contribute glossary entries only.
C13_GlossaryXorTranslation ==
    (pc = "decode_return" /\ OnlyGlossaryObjects)
        => /\ primary_decode(response).dsts = <<>>
           /\ DOMAIN primary_decode(response).indexed_dsts = {}
           /\ result.glossarys # <<>>

(***************************************************************************)
(* Further claims about try_realign_to_sources (SpecRealign).              *)
(***************************************************************************)

\* C15: a call of try_realign_to_sources with len(dsts) = len(srcs) returns
\* dsts itself, line for line, and leaves used_line_realignment as it was.
C15_EqualLengthUnchanged ==
    (pc = "realign_return" /\ Len(dsts) = Len(srcs))
        => (result = dsts /\ used_line_realignment = entry_flag)

\* C15 witness: a call on lists of equal length whose destination holds a
\* symbol line, a blank line and a value of two lines, which the strategies
\* would remove or split
C15_Witness ==
    /\ pc = "realign_return"
    /\ Len(dsts) = Len(srcs) /\ Len(dsts) >= 3
    /\ \E i, j, k \in 1..Len(dsts) :
          /\ is_garbage_line(strip(dsts[i])) /\ ~is_blank(dsts[i])
          /\ contains_newline(dsts[j]) /\ k = j + 1 /\ is_blank(dsts[k])
    /\ result = dsts /\ ~used_line_realignment

NonEmptyCountsMatch ==
    /\ Len(dsts) # Len(srcs)
    /\ Len(non_empty_lines(dsts)) = Len(non_empty_lines(srcs))

\* C20: a call with len(dsts) # len(srcs) in which as many destination lines
\* as source lines are not blank returns the alignment by position: the empty
\* string at every blank source position and the non-blank destination lines,
\* in their order, at the other positions.
C20_PositionAlignmentFirst ==
    (pc = "realign_return" /\ NonEmptyCountsMatch)
        => result = align_by_position(non_empty_lines(dsts), srcs)

(***************************************************************************)
(* Claims about the degradation test of check_lines (SpecCheckLines).      *)
(***************************************************************************)
\* text holds a unit of 1 to 3 characters (no newline in it) `copies' times
\* in a row, compared without regard to case
HasRun(text, copies) ==
    \E i \in 1..Len(text) : \E u \in 1..3 :
        /\ i + u * copies - 1 <= Len(text)
        /\ \A k \in 0..(u - 1) : text[i + k] /= NL
        /\ \A k \in 0..(u * copies - 1) :
              casefold(text[i + k]) = casefold(text[i + (k % u)])

\* the line reaches the degradation test: the empty-line rule and the
\* filters did not settle it
ReachesDegradation(i) ==
    /\ ~(Src(i) /= <<>> /\ Dst(i) = <<>>)
    /\ ~FilterExempt(i)

\* C17 as stated: a line that is not filter-exempt and not blank, whose
\* destination holds a unit of 1 to 3 characters 16 times in a row while its
\* source holds no such run, is classified LINE_ERROR_DEGRADATION.
C17_SixteenTimesIsDegradation ==
    Returned => \A i \in 1..Len(srcs) :
        (ReachesDegradation(i) /\ Dst(i) /= <<>>
         /\ HasRun(Dst(i), 16) /\ ~HasRun(Src(i), 16))
            => result[i] = "LINE_ERROR_DEGRADATION"

\* C17: a line that reaches the degradation test is classified
\* LINE_ERROR_DEGRADATION exactly when its destination holds a unit of 1 to 3
\* characters 17 times in a row (the unit and 16 further copies) and its
\* source holds no such run.
C17_SeventeenTimesIsDegradation ==
    Returned => \A i \in 1..Len(srcs) :
        ReachesDegradation(i)
            => (result[i] = "LINE_ERROR_DEGRADATION"
                   <=> (HasRun(Dst(i), 17) /\ ~HasRun(Src(i), 17)))

\* C17 witness: one call classified a run of 17 as degradation and let a run
\* of 16 pass
C17_Witness ==
    /\ Returned
    /\ \E i, j \in 1..Len(srcs) :
          /\ ReachesDegradation(i) /\ HasRun(Dst(i), 17)
          /\ result[i] = "LINE_ERROR_DEGRADATION"
          /\ ReachesDegradation(j) /\ HasRun(Dst(j), 16) /\ ~HasRun(Dst(j), 17)
          /\ result[j] = "NONE"

(***************************************************************************)
(* decode followed by try_realign_to_sources on the list it returned, as   *)
(* the scenarios of the specification run them.                            *)
(***************************************************************************)
MaxMergedLines == 3
MaxMergedSrcs == 3

\* the value "a\nb\n..." of n parts
PartNames == <<"a", "b", "c", "d", "e">>
merged_value(n) ==
    [i \in 1..(2 * n - 1) |-> IF i % 2 = 1 THEN PartNames[(i + 1) \div 2] ELSE NL]

\* the lines of a response: index 0 with a value of two or of three lines,
\* empty values for the indices that follow, a short value
MergedResponseLines ==
    { ObjectLine(<<Translation(0, merged_value(2))>>),
      ObjectLine(<<Translation(0, merged_value(3))>>),
      ObjectLine(<<Translation(1, <<>>)>>),
      ObjectLine(<<Translation(2, <<>>)>>),
      ObjectLine(<<Translation(3, <<>>)>>),
      ObjectLine(<<Translation(1, <<"z">>)>>) }

InitDecodeRealign ==
    /\ pc = "decode_call"
    /\ srcs \in SeqsUpTo(RealignSrcLines, MaxMergedSrcs)
    /\ dsts = <<>>
    /\ items = <<>>
    /\ config = NoConfig
    /\ used_line_realignment = FALSE
    /\ entry_flag = FALSE
    /\ result = <<>>
    /\ response \in SeqsUpTo(MergedResponseLines, MaxMergedLines)
    /\ response_think = [long |-> FALSE, lines |-> <<>>]
    /\ used_thinking_fallback = FALSE
    /\ used_empty_line_cleanup = FALSE
    /\ NoRawText

\* dsts, glossarys = decoder.decode(response, response_think)
DecodeResponse ==
    /\ pc = "decode_call"
    /\ LET r == decode(response, response_think)
       IN /\ dsts' = r.dsts
          /\ used_thinking_fallback' = r.used_thinking_fallback
          /\ used_empty_line_cleanup' = r.used_empty_line_cleanup
    /\ used_line_realignment' = FALSE
    /\ pc' = "realign_call"
    /\ UNCHANGED <<srcs, items, config, entry_flag, result, response, response_think>>
    /\ UNCHANGED raw_vars

\* dsts = decoder.try_realign_to_sources(dsts, srcs)
RealignDecoded ==
    /\ pc = "realign_call"
    /\ LET r == try_realign_to_sources(dsts, srcs)
       IN /\ result' = r.dsts
          /\ used_line_realignment' = (used_line_realignment \/ r.used)
    /\ entry_flag' = used_line_realignment
    /\ pc' = "realign_return"
    /\ UNCHANGED <<srcs, dsts, items, config>>
    /\ UNCHANGED decoder_vars

NextDecodeRealign == DecodeResponse \/ RealignDecoded

SpecDecodeRealign == InitDecodeRealign /\ [][NextDecodeRealign]_vars

\* the response of scenario C for n lines: index 0 holds the n lines joined
\* by newlines, the indices 1..n-1 hold the empty string
MergedResponse(n) ==
    [i \in 1..n |-> IF i = 1 THEN ObjectLine(<<Translation(0, merged_value(n))>>)
                    ELSE ObjectLine(<<Translation(i - 1, <<>>)>>)]

\* C14: a response whose index 0 holds N lines joined by newlines and whose
\* next N-1 indices hold empty values, decoded and then realigned against a
\* source of N lines of text, gives the N parts as the destination.
C14_MergedValueIsSplit ==
    pc = "realign_return"
        => \A n \in 2..MaxMergedLines :
              (/\ response = MergedResponse(n)
               /\ Len(srcs) = n /\ \A i \in 1..n : ~is_blank(srcs[i]))
                  => result = split_newline(merged_value(n))

(***************************************************************************)
(* extract_json_object_strings (lines 339-372), character by character.    *)
(* The scanner state is [objects, depth, start, in_string, escape]; start  *)
(* is 0 for None.                                                          *)
(***************************************************************************)
LBRACE == "{"
RBRACE == "}"
QUOTE == "\""
BACKSLASH == "\\"

ScanState(objects, depth, start, in_string, escaped) ==
    [objects |-> objects, depth |-> depth, start |-> start,
     in_string |-> in_string, escape |-> escaped]

\* scan_in_string that does not honour the backslash
scan_in_string_without_escape(st, ch) ==
    IF ch = QUOTE THEN [st EXCEPT !.in_string = FALSE] ELSE st

\* lines 357-364: depth > 0, inside a string
scan_in_string(st, ch) ==
    IF st.escape THEN [st EXCEPT !.escape = FALSE]
    ELSE IF ch = BACKSLASH THEN [st EXCEPT !.escape = TRUE]
    ELSE IF ch = QUOTE THEN [st EXCEPT !.in_string = FALSE]
    ELSE st

\* lines 373-378: a closing brace outside a string
scan_close(st, s, i) ==
    IF st.depth = 1
    THEN [st EXCEPT !.depth = 0, !.start = 0,
                    !.objects = Append(@, SubSeq(s, st.start, i))]
    ELSE [st EXCEPT !.depth = @ - 1]

\* scan_char that does not track strings: every brace counts
scan_char_ignoring_strings(st, s, i) ==
    IF st.depth = 0
    THEN IF s[i] = LBRACE THEN ScanState(st.objects, 1, i, FALSE, FALSE) ELSE st
    ELSE IF s[i] = LBRACE THEN [st EXCEPT !.depth = @ + 1]
    ELSE IF s[i] = RBRACE THEN scan_close(st, s, i)
    ELSE st

\* lines 347-379: the body of the loop for the character at position i
scan_char(st, s, i) ==
    IF st.depth = 0
    THEN IF s[i] = LBRACE THEN ScanState(st.objects, 1, i, FALSE, FALSE) ELSE st
    ELSE IF st.in_string THEN scan_in_string(st, s[i])
    ELSE IF s[i] = QUOTE THEN [st EXCEPT !.in_string = TRUE]
    ELSE IF s[i] = LBRACE THEN [st EXCEPT !.depth = @ + 1]
    ELSE IF s[i] = RBRACE THEN scan_close(st, s, i)
    ELSE st

RECURSIVE scan_loop(_, _, _)
scan_loop(st, s, i) ==
    IF i > Len(s) THEN st ELSE scan_loop(scan_char(st, s, i), s, i + 1)

extract_json_object_strings(s) ==
    scan_loop(ScanState(<<>>, 0, 0, FALSE, FALSE), s, 1).objects

(***************************************************************************)
(* One call of extract_json_object_strings on a text made of well-formed   *)
(* objects and single characters of noise.                                 *)
(***************************************************************************)
MaxSegments == 4

\* {"0":"a"}, an object whose value holds a closing brace, one whose value
\* holds an escaped quote and an opening brace, and one with a nested object
WellFormedObjects ==
    { <<"{", "\"", "0", "\"", ":", "\"", "a", "\"", "}">>,
      <<"{", "\"", "0", "\"", ":", "\"", "}", "\"", "}">>,
      <<"{", "\"", "0", "\"", ":", "\"", "\\", "\"", "{", "\"", "}">>,
      <<"{", "\"", "0", "\"", ":", "{", "}", "}">> }

\* noise: a letter, a newline, stray braces, a stray quote, a stray backslash
NoiseCharacters == { <<"x">>, <<"\n">>, <<"}">>, <<"\"">>, <<"\\">>, <<"{">> }

InitScan ==
    /\ pc = "scan_call"
    /\ srcs = <<>>
    /\ dsts = <<>>
    /\ items = <<>>
    /\ config = NoConfig
    /\ used_line_realignment = FALSE
    /\ entry_flag = FALSE
    /\ result = <<>>
    /\ response = <<>>
    /\ response_think = [long |-> FALSE, lines |-> <<>>]
    /\ used_thinking_fallback = FALSE
    /\ used_empty_line_cleanup = FALSE
    /\ raw_response \in SeqsUpTo(WellFormedObjects \cup NoiseCharacters, MaxSegments)
    /\ used_codeblock_cleanup = FALSE
    /\ calls = <<>>
    /\ API_KEY_INDEX = 0

ExtractObjects ==
    /\ pc = "scan_call"
    /\ result' = extract_json_object_strings(flatten(raw_response))
    /\ pc' = "scan_return"
    /\ UNCHANGED <<srcs, dsts, items, config, used_line_realignment, entry_flag>>
    /\ UNCHANGED decoder_vars

NextScan == ExtractObjects

SpecScan == InitScan /\ [][NextScan]_vars

(***************************************************************************)
(* Claims about extract_json_object_strings (SpecScan).                    *)
(***************************************************************************)
\* the well-formed objects of the text, in input order
ObjectsOfText == SelectSeq(raw_response, LAMBDA seg : seg \in WellFormedObjects)
NoiseOfText == SelectSeq(raw_response, LAMBDA seg : seg \notin WellFormedObjects)
StrayOpeningBrace == \E i \in 1..Len(raw_response) : raw_response[i] = <<LBRACE>>
StrayClosingBrace == \E i \in 1..Len(raw_response) : raw_response[i] = <<RBRACE>>

\* C16 as stated: for a text of N well-formed top-level objects and noise of
\* any characters, stray braces and quotes included, the scanner returns
\* exactly the N objects, in input order.  (Noise that holds both an opening
\* and a closing brace is left out: it may form an object of its own.)
C16_ObjectsAmongAnyNoise ==
    (pc = "scan_return" /\ ~(StrayOpeningBrace /\ StrayClosingBrace))
        => result = ObjectsOfText

\* C16: for a text of N well-formed top-level objects and noise that holds
\* no opening brace (closing braces, quotes and backslashes may occur), the
\* scanner returns exactly the N objects, in input order.
C16_ObjectsAmongNoiseWithoutOpeningBrace ==
    (pc = "scan_return" /\ ~StrayOpeningBrace) => result = ObjectsOfText

\* C16 witness: two objects, one of them with a brace inside a string, among
\* noise that holds a stray closing brace and a stray quote
C16_Witness ==
    /\ pc = "scan_return" /\ ~StrayOpeningBrace
    /\ Len(ObjectsOfText) = 2 /\ ObjectsOfText[1] # ObjectsOfText[2]
    /\ \E i \in 1..2 : \E k \in 2..(Len(ObjectsOfText[i]) - 1) :
          ObjectsOfText[i][k] = RBRACE
    /\ \E i, j \in 1..Len(NoiseOfText) :
          NoiseOfText[i] = <<RBRACE>> /\ NoiseOfText[j] = <<QUOTE>>
    /\ result = ObjectsOfText

(***************************************************************************)
(* ResponseDecoder._preprocess_response (lines 80-159) on the characters   *)
(* of the raw response.  The backtick is written "U0060".  A position is   *)
(* an index into the text; 0 stands for "no match".                        *)
(***************************************************************************)
BACKTICK == "U0060"
TAG_JSONLINE == <<"j", "s", "o", "n", "l", "i", "n", "e">>
TAG_JSON == <<"j", "s", "o", "n">>
TAG_JSONL == <<"j", "s", "o", "n", "l">>

join_newline(lines) ==
    flatten([i \in 1..Len(lines) |-> IF i = 1 THEN lines[i] ELSE <<NL>> \o lines[i]])

count_char(s, ch) == Cardinality({i \in 1..Len(s) : s[i] = ch})

\* the three backticks of a fence start at position p
fence_at(s, p) ==
    /\ p >= 1 /\ p + 2 <= Len(s)
    /\ s[p] = BACKTICK /\ s[p + 1] = BACKTICK /\ s[p + 2] = BACKTICK

\* word stands at position p, case ignored (re.IGNORECASE)
word_at(s, p, word) ==
    /\ p + Len(word) - 1 <= Len(s)
    /\ \A k \in 1..Len(word) : casefold(s[p + k - 1]) = word[k]

\* (?:jsonline|json|jsonl)? where nothing that follows can fail: the first
\* alternative that matches is kept
tag_length(s, p) ==
    IF word_at(s, p, TAG_JSONLINE) THEN Len(TAG_JSONLINE)
    ELSE IF word_at(s, p, TAG_JSON) THEN Len(TAG_JSON)
    ELSE 0

\* the first fence at or after position p
next_fence(s, p) ==
    IF \E q \in p..Len(s) : fence_at(s, q)
    THEN CHOOSE q \in p..Len(s) :
             fence_at(s, q) /\ \A r \in p..(q - 1) : ~fence_at(s, r)
    ELSE 0

\* group(1) of a match of the fence pattern that opens at a and closes at b,
\* stripped (both uses strip it)
block_content(s, a, b) == strip(SubSeq(s, a + 3 + tag_length(s, a + 3), b - 1))

\* single_block_pattern.findall(response) from the opening fence at a on
\* (lines 97-104), each match stripped
RECURSIVE code_blocks_from(_, _)
RECURSIVE code_blocks_closed(_, _, _)
code_blocks_from(s, a) ==
    IF a = 0 THEN <<>> ELSE code_blocks_closed(s, a, next_fence(s, a + 3))
code_blocks_closed(s, a, b) ==
    IF b = 0 THEN <<>>
    ELSE <<block_content(s, a, b)>> \o code_blocks_from(s, next_fence(s, b + 3))

code_blocks(s) == code_blocks_from(s, next_fence(s, 1))

\* the response and the value of self._used_codeblock_cleanup
Preprocessed(s, used) == [response |-> s, used |-> used]

\* lines 108-112, with matches the stripped blocks
join_valid_matches(s, valid_matches, used) ==
    IF valid_matches # <<>> THEN Preprocessed(join_newline(valid_matches), TRUE)
    ELSE Preprocessed(s, used)

\* step 1, lines 102-112
join_single_blocks(s, used) ==
    IF Len(code_blocks(s)) > 1
    THEN join_valid_matches(s, SelectSeq(code_blocks(s), LAMBDA m : m # <<>>), used)
    ELSE Preprocessed(s, used)

\* lines 121-126, block_content the stripped first block
unwrap_content(s, content, used) ==
    IF content # <<>> /\ count_char(content, "{") > 0 /\ count_char(content, "}") > 0
    THEN Preprocessed(content, TRUE)
    ELSE Preprocessed(s, used)

\* step 2, lines 116-126
unwrap_code_block(s, used) ==
    IF ~used /\ code_blocks(s) # <<>> THEN unwrap_content(s, code_blocks(s)[1], used)
    ELSE Preprocessed(s, used)

\* "\s*$" with re.MULTILINE from position q: the position where the match
\* ends (the end of the text, or the last newline of the whitespace found)
last_newline(s, q, r) ==
    IF \E n \in q..(r - 1) : s[n] = NL
    THEN CHOOSE n \in q..(r - 1) : s[n] = NL /\ \A k \in (n + 1)..(r - 1) : s[k] # NL
    ELSE 0

line_end_after(s, q, r) == IF r > Len(s) THEN r ELSE last_newline(s, q, r)

line_end_from(s, q) == line_end_after(s, q, skip_spaces(s, q))

line_start(s, p) == p = 1 \/ s[p - 1] = NL

\* ^```(?:jsonline|json|jsonl)?\s*$ at position p: the end of the match
tagged_fence_end(s, p) ==
    IF ~(line_start(s, p) /\ fence_at(s, p)) THEN 0
    ELSE IF word_at(s, p + 3, TAG_JSONLINE) /\ line_end_from(s, p + 3 + Len(TAG_JSONLINE)) # 0
       THEN line_end_from(s, p + 3 + Len(TAG_JSONLINE))
    ELSE IF word_at(s, p + 3, TAG_JSON) /\ line_end_from(s, p + 3 + Len(TAG_JSON)) # 0
       THEN line_end_from(s, p + 3 + Len(TAG_JSON))
    ELSE IF word_at(s, p + 3, TAG_JSONL) /\ line_end_from(s, p + 3 + Len(TAG_JSONL)) # 0
       THEN line_end_from(s, p + 3 + Len(TAG_JSONL))
    ELSE line_end_from(s, p + 3)

\* ^\s*```\s*$ at position p: the end of the match
bare_fence_end_after(s, q) == IF fence_at(s, q) THEN line_end_from(s, q + 3) ELSE 0

bare_fence_end(s, p) ==
    IF line_start(s, p) THEN bare_fence_end_after(s, skip_spaces(s, p)) ELSE 0

\* re.sub(pattern, '', response) of lines 130 and 131, from position p on
RECURSIVE sub_tagged_fences(_, _)
RECURSIVE sub_tagged_fences_at(_, _, _)
sub_tagged_fences(s, p) ==
    IF p > Len(s) THEN <<>> ELSE sub_tagged_fences_at(s, p, tagged_fence_end(s, p))
sub_tagged_fences_at(s, p, e) ==
    IF e = 0 THEN <<s[p]>> \o sub_tagged_fences(s, p + 1) ELSE sub_tagged_fences(s, e)

RECURSIVE sub_bare_fences(_, _)
RECURSIVE sub_bare_fences_at(_, _, _)
sub_bare_fences(s, p) ==
    IF p > Len(s) THEN <<>> ELSE sub_bare_fences_at(s, p, bare_fence_end(s, p))
sub_bare_fences_at(s, p, e) ==
    IF e = 0 THEN <<s[p]>> \o sub_bare_fences(s, p + 1) ELSE sub_bare_fences(s, e)

\* step 3, lines 130-131
remove_fence_lines(s) == sub_bare_fences(sub_tagged_fences(s, 1), 1)

\* line 138: the fence, the tag and the whitespace at the start of a line
strip_leading_fence(line) ==
    IF fence_at(line, 1)
    THEN SubSeq(line, skip_spaces(line, 4 + tag_length(line, 4)), Len(line))
    ELSE line

\* line 140: the fence at the end of a line and the whitespace before it
strip_trailing_fence(line) ==
    IF fence_at(line, Len(line) - 2) THEN rstrip(SubSeq(line, 1, Len(line) - 3))
    ELSE line

\* step 4, lines 134-142
clean_fence_marks(s) ==
    join_newline([i \in 1..Len(split_newline(s)) |->
                     strip_trailing_fence(strip_leading_fence(split_newline(s)[i]))])

\* _fix_duplicate_braces (lines 161-201): the number of {" groups at the
\* start of the stripped line
RECURSIVE leading_brace_quotes(_, _)
leading_brace_quotes(s, p) ==
    IF p + 1 <= Len(s) /\ s[p] = "{" /\ s[p + 1] = "\""
    THEN 1 + leading_brace_quotes(s, p + 2) ELSE 0

\* digits, a quote, whitespace and a colon from position p on
key_rest_after(s, p, d) ==
    /\ d > p /\ d <= Len(s) /\ s[d] = "\""
    /\ skip_spaces(s, d + 1) <= Len(s) /\ s[skip_spaces(s, d + 1)] = ":"

key_rest_at(s, p) == key_rest_after(s, p, skip_digits(s, p))

\* the line after the repair: m groups were found, the last of them opens
\* the key
fix_stripped_line(line, stripped, m) ==
    IF m >= 2 /\ key_rest_at(stripped, 2 * m + 1)
    THEN SubSeq(stripped, 2 * m - 1, Len(stripped))
    ELSE line

fix_line(line) == fix_stripped_line(line, strip(line), leading_brace_quotes(strip(line), 1))

_fix_duplicate_braces(s) ==
    join_newline([i \in 1..Len(split_newline(s)) |-> fix_line(split_newline(s)[i])])

\* _merge_split_json_lines (lines 203-264): the state of the loop
MergeState(merged_lines, buffer, brace_count) ==
    [merged_lines |-> merged_lines, buffer |-> buffer, brace_count |-> brace_count]

brace_balance(stripped) == count_char(stripped, "{") - count_char(stripped, "}")

\* lines 229-237: a line joins the buffer
merge_buffered(st, joined, count) ==
    IF count <= 0 THEN MergeState(Append(st.merged_lines, joined), <<>>, 0)
    ELSE MergeState(st.merged_lines, joined, count)

\* lines 238-247: a line that starts with an opening brace
merge_opening(st, line, stripped) ==
    IF brace_balance(stripped) <= 0
    THEN MergeState(Append(st.merged_lines, line), <<>>, 0)
    ELSE MergeState(st.merged_lines, stripped, brace_balance(stripped))

\* lines 220-250: one line
merge_line(st, line, stripped) ==
    IF stripped = <<>>
    THEN IF st.buffer = <<>> THEN [st EXCEPT !.merged_lines = Append(@, line)] ELSE st
    ELSE IF st.buffer # <<>>
       THEN merge_buffered(st, st.buffer \o <<SP>> \o stripped,
                           st.brace_count + brace_balance(stripped))
    ELSE IF stripped[1] = "{" THEN merge_opening(st, line, stripped)
    ELSE [st EXCEPT !.merged_lines = Append(@, line)]

RECURSIVE merge_loop(_, _)
merge_loop(st, lines) ==
    IF lines = <<>> THEN st
    ELSE merge_loop(merge_line(st, Head(lines), strip(Head(lines))), Tail(lines))

\* lines 252-256
merge_flush(st) ==
    IF st.buffer # <<>> THEN Append(st.merged_lines, st.buffer) ELSE st.merged_lines

_merge_split_json_lines(s) ==
    join_newline(merge_flush(merge_loop(MergeState(<<>>, <<>>, 0), split_newline(s))))

\* steps 3 to 6, lines 128-152
clean_response(s) ==
    _merge_split_json_lines(_fix_duplicate_braces(clean_fence_marks(remove_fence_lines(s))))

\* lines 154-157: the flag and the value returned
finish_preprocess(original, s, used) ==
    Preprocessed(strip(s), used \/ s # original)

\* steps 3 to 6 on the outcome p of step 2
finish_after_unwrap(original, p) ==
    finish_preprocess(original, clean_response(p.response), p.used)

\* steps 2 to 6 on the outcome p of step 1
preprocess_after_blocks(original, p) ==
    finish_after_unwrap(original, unwrap_code_block(p.response, p.used))

\* _preprocess_response(response) entered with the flag at the value used
_preprocess_response(s, used) == preprocess_after_blocks(s, join_single_blocks(s, used))

(***************************************************************************)
(* _preprocess_response on raw texts: a text is a sequence of at most      *)
(* MaxRawSegments segments, the flags freshly reset (decode, lines         *)
(* 325-331).                                                               *)
(***************************************************************************)
MaxRawSegments == 4

JsonLine == <<"{", "\"", "0", "\"", ":", "\"", "a", "\"", "}">>

RawSegments ==
    { FENCE, TAG_JSON, <<NL>>, <<SP>>, JsonLine, <<"{">>, <<"}">>, <<"x">>, <<"{", "\"">> }

InitPreprocess ==
    /\ pc = "preprocess_call"
    /\ srcs = <<>>
    /\ dsts = <<>>
    /\ items = <<>>
    /\ config = NoConfig
    /\ used_line_realignment = FALSE
    /\ entry_flag = FALSE
    /\ result = <<>>
    /\ response = <<>>
    /\ response_think = [long |-> FALSE, lines |-> <<>>]
    /\ used_thinking_fallback = FALSE
    /\ used_empty_line_cleanup = FALSE
    /\ raw_response \in SeqsUpTo(RawSegments, MaxRawSegments)
    /\ used_codeblock_cleanup = FALSE
    /\ calls = <<>>
    /\ API_KEY_INDEX = 0

\* decode, lines 325 and 331: the flag is reset and the response preprocessed
PreprocessResponse ==
    /\ pc = "preprocess_call"
    /\ result' = _preprocess_response(flatten(raw_response), FALSE).response
    /\ used_codeblock_cleanup' = _preprocess_response(flatten(raw_response), FALSE).used
    /\ pc' = "preprocess_return"
    /\ UNCHANGED <<srcs, dsts, items, config, used_line_realignment, entry_flag>>
    /\ UNCHANGED <<response, response_think, used_thinking_fallback,
                   used_empty_line_cleanup, raw_response, calls, API_KEY_INDEX>>

NextPreprocess == PreprocessResponse

SpecPreprocess == InitPreprocess /\ [][NextPreprocess]_vars

\* C19: the response preprocessor is idempotent: applied with freshly reset
\* flags to its own output, _preprocess_response returns that output
\* unchanged.
C19_PreprocessIdempotent ==
    pc = "preprocess_return" => _preprocess_response(result, FALSE).response = result

(***************************************************************************)
(* Decode calls in progress on one ResponseDecoder.  The flags are         *)
(* attributes of the instance and so are shared by the calls; the response *)
(* being preprocessed, the original and the lists are locals of a call.    *)
(* A step of a call is the code between two accesses to the flags.         *)
(***************************************************************************)
MaxCalls == 2

\* the first quote at or after position i
find_quote(s, i) ==
    IF \E j \in i..Len(s) : s[j] = QUOTE
    THEN CHOOSE j \in i..Len(s) : s[j] = QUOTE /\ \A k \in i..(j - 1) : s[k] # QUOTE
    ELSE 0

\* json: the object written {"key":"value"} without escapes, read back into
\* its pairs (the inverse of objects_text on such an object); any other
\* object is read as having no pairs
read_key(key) ==
    IF key # <<>> /\ skip_digits(key, 1) > Len(key) THEN NumKey(int_of(key))
    ELSE NameKey(key)

read_object_value(o, key, v, e) ==
    IF char_at(o, v, {QUOTE}) /\ e # 0 /\ skip_spaces(o, e + 1) = Len(o)
    THEN <<Pair(read_key(key), SubSeq(o, v + 1, e - 1))>>
    ELSE <<>>

read_object_colon(o, key, c) ==
    IF char_at(o, c, {":"})
    THEN read_object_value(o, key, skip_spaces(o, c + 1),
                           find_quote(o, skip_spaces(o, c + 1) + 1))
    ELSE <<>>

read_object_key(o, a, e) ==
    IF char_at(o, a, {QUOTE}) /\ e # 0
    THEN read_object_colon(o, SubSeq(o, a + 1, e - 1), skip_spaces(o, e + 1))
    ELSE <<>>

read_object(o) ==
    read_object_key(o, skip_spaces(o, 2), find_quote(o, skip_spaces(o, 2) + 1))

\* a physical line of the response as decode reads it (lines 431-432, 465):
\* the objects the scanner finds on it, or else its text
read_objects(line, found) ==
    IF found = <<>> THEN TextLine(line)
    ELSE ObjectLine([i \in 1..Len(found) |-> read_object(found[i])])

read_line(line) == read_objects(line, extract_json_object_strings(line))

\* response.splitlines(), line 431
read_lines(s) ==
    IF s = <<>> THEN <<>>
    ELSE [i \in 1..Len(split_newline(s)) |-> read_line(split_newline(s)[i])]

NoThinking == [long |-> FALSE, lines |-> <<>>]

\* lines 334-689 on the preprocessed response, no thinking text given
decode_preprocessed(s) == decode(read_lines(s), NoThinking)

\* decode(response) by a call that runs alone
decode_alone(s) == decode_preprocessed(_preprocess_response(s, FALSE).response)

Fenced(s) == FENCE \o TAG_JSON \o <<NL>> \o s \o <<NL>> \o FENCE

JsonLineB == <<"{", "\"", "1", "\"", ":", "\"", "b", "\"", "}">>

\* the responses of the calls: a JSON line; a code block followed by a JSON
\* line; two code blocks; a JSON object split over two lines
CallResponses ==
    { JsonLine,
      Fenced(JsonLine) \o <<NL>> \o JsonLineB,
      Fenced(JsonLine) \o <<NL>> \o Fenced(JsonLineB),
      <<"{", "\"", "0", "\"", ":", NL, "\"", "a", "\"", "}">> }

Call(s) == [pc |-> "decode_call", original |-> s, response |-> s, dsts |-> <<>>]

InitCalls ==
    /\ pc = "calls"
    /\ srcs = <<>>
    /\ dsts = <<>>
    /\ items = <<>>
    /\ config = NoConfig
    /\ used_line_realignment = FALSE
    /\ entry_flag = FALSE
    /\ result = <<>>
    /\ response = <<>>
    /\ response_think = NoThinking
    /\ used_thinking_fallback = FALSE
    /\ used_empty_line_cleanup = FALSE
    /\ raw_response = <<>>
    /\ used_codeblock_cleanup = FALSE
    /\ \E texts \in [1..MaxCalls -> CallResponses] :
          /\ \A c, d \in 1..MaxCalls : c # d => texts[c] # texts[d]
          /\ calls = [c \in 1..MaxCalls |-> Call(texts[c])]
    /\ API_KEY_INDEX = 0

call_vars == <<pc, srcs, dsts, items, config, entry_flag, result, response, response_think,
               raw_response, API_KEY_INDEX>>

\* decode, lines 325-328: the call resets the flags of the instance
ResetFlags(c) ==
    /\ calls[c].pc = "decode_call"
    /\ used_thinking_fallback' = FALSE
    /\ used_codeblock_cleanup' = FALSE
    /\ used_empty_line_cleanup' = FALSE
    /\ used_line_realignment' = FALSE
    /\ calls' = [calls EXCEPT ![c].pc = "single_blocks"]
    /\ UNCHANGED call_vars

\* _preprocess_response, lines 93-112: step 1, the flag written at line 112
JoinSingleBlocks(c) ==
    /\ calls[c].pc = "single_blocks"
    /\ used_codeblock_cleanup' =
           join_single_blocks(calls[c].response, used_codeblock_cleanup).used
    /\ calls' = [calls EXCEPT
           ![c].response = join_single_blocks(calls[c].response, used_codeblock_cleanup).response,
           ![c].pc = "code_block"]
    /\ UNCHANGED <<used_thinking_fallback, used_empty_line_cleanup, used_line_realignment>>
    /\ UNCHANGED call_vars

\* lines 116-126: step 2, the flag read at line 116 and written at line 126
UnwrapCodeBlock(c) ==
    /\ calls[c].pc = "code_block"
    /\ used_codeblock_cleanup' =
           unwrap_code_block(calls[c].response, used_codeblock_cleanup).used
    /\ calls' = [calls EXCEPT
           ![c].response = unwrap_code_block(calls[c].response, used_codeblock_cleanup).response,
           ![c].pc = "clean"]
    /\ UNCHANGED <<used_thinking_fallback, used_empty_line_cleanup, used_line_realignment>>
    /\ UNCHANGED call_vars

\* lines 128-159: steps 3 to 6, the flag written at line 157
CleanResponse(c) ==
    /\ calls[c].pc = "clean"
    /\ used_codeblock_cleanup' =
           finish_after_unwrap(calls[c].original,
                               Preprocessed(calls[c].response, used_codeblock_cleanup)).used
    /\ calls' = [calls EXCEPT
           ![c].response =
               finish_after_unwrap(calls[c].original,
                                   Preprocessed(calls[c].response, used_codeblock_cleanup)).response,
           ![c].pc = "parse"]
    /\ UNCHANGED <<used_thinking_fallback, used_empty_line_cleanup, used_line_realignment>>
    /\ UNCHANGED call_vars

\* lines 334-689: the passes over the preprocessed response; the flags of
\* lines 641, 651, 710 and 719 are only ever set
ParseResponse(c) ==
    /\ calls[c].pc = "parse"
    /\ used_thinking_fallback' =
           (used_thinking_fallback
               \/ decode_preprocessed(calls[c].response).used_thinking_fallback)
    /\ used_empty_line_cleanup' =
           (used_empty_line_cleanup
               \/ decode_preprocessed(calls[c].response).used_empty_line_cleanup)
    /\ calls' = [calls EXCEPT ![c].dsts = decode_preprocessed(calls[c].response).dsts,
                              ![c].pc = "decode_return"]
    /\ UNCHANGED <<used_codeblock_cleanup, used_line_realignment>>
    /\ UNCHANGED call_vars

NextCalls ==
    \E c \in 1..MaxCalls :
        \/ ResetFlags(c)
        \/ JoinSingleBlocks(c)
        \/ UnwrapCodeBlock(c)
        \/ CleanResponse(c)
        \/ ParseResponse(c)

SpecCalls == InitCalls /\ [][NextCalls]_vars

\* C18: when two decode calls on different responses interleave on one
\* decoder, each returns the destination list it returns when run alone.
C18_InterleavedAsAlone ==
    \A c \in DOMAIN calls :
        calls[c].pc = "decode_return" => calls[c].dsts = decode_alone(calls[c].original).dsts

\* the state of decode at line 684, before the compaction
BeforeCompaction ==
    plain_text_pass(thinking_pass(primary_decode(response), response_think), response)

\* the thinking fallback of lines 643-656 built the list from its index map
ThinkingFallbackDensified ==
    /\ Len(primary_decode(response).dsts) = 0
    /\ response_think.long
    /\ DOMAIN _extract_from_thinking(response_think.lines) # {}

\* the list was densified from an index map: of the response (lines 517-521,
\* 541, 613), of the thinking text (lines 650-656) or of numbered text (666)
DensifiedFromIndexMap ==
    BeforeCompaction.preserve_trailing_empty \/ ThinkingFallbackDensified

ends_blank(ds) == ds # <<>> /\ is_blank(ds[Len(ds)])

no_adjacent_blanks(ds) ==
    \A i \in 1..(Len(ds) - 1) : ~(is_blank(ds[i]) /\ is_blank(ds[i + 1]))

\* C21 as stated: a list of more than one line returned by decode has no two
\* adjacent blank lines; it ends with a blank line only if it was densified
\* from an index map, and a list densified from an index map that ended with
\* a blank line still ends with one.
C21_CompactedAndTrailingKept ==
    pc = "decode_return" =>
        /\ Len(result.dsts) > 1 => no_adjacent_blanks(result.dsts)
        /\ (Len(result.dsts) > 1 /\ ~DensifiedFromIndexMap) => ~ends_blank(result.dsts)
        /\ (DensifiedFromIndexMap /\ Len(BeforeCompaction.dsts) > 1
               /\ ends_blank(BeforeCompaction.dsts)) => ends_blank(result.dsts)

\* what the code does: the trailing blank lines are kept exactly when
\* preserve_trailing_empty is set, which the thinking fallback does not do
TrailingKeptWhenPreserved ==
    pc = "decode_return" =>
        /\ Len(result.dsts) > 1 => no_adjacent_blanks(result.dsts)
        /\ (Len(BeforeCompaction.dsts) > 1 /\ ~BeforeCompaction.preserve_trailing_empty)
               => ~ends_blank(result.dsts)
        /\ (Len(BeforeCompaction.dsts) > 1 /\ BeforeCompaction.preserve_trailing_empty
               /\ ends_blank(BeforeCompaction.dsts)) => ends_blank(result.dsts)

\* the two kinds of lines the removal is said to drop: a non-empty run of
\* ASCII symbols shorter than 5 characters, and a non-empty line equal to the
\* line just before it in the input
is_symbol_run(line) == strip(line) # <<>> /\ is_garbage_line(strip(line))

repeats_predecessor(ls, i) == i > 1 /\ strip(ls[i]) # <<>> /\ ls[i] = ls[i - 1]

RECURSIVE without_symbol_runs_and_repeats(_, _)
without_symbol_runs_and_repeats(ls, i) ==
    IF i > Len(ls) THEN <<>>
    ELSE (IF is_symbol_run(ls[i]) \/ repeats_predecessor(ls, i) THEN <<>> ELSE <<ls[i]>>)
         \o without_symbol_runs_and_repeats(ls, i + 1)

\* C22 as stated: when the destination is longer than the source, the
\* garbage removal drops exactly the symbol runs and the repeated lines and
\* keeps every other line, the empty ones included, in order.
C22_RemovesSymbolRunsAndRepeats ==
    (pc = "realign_return" /\ Len(dsts) > Len(srcs)) =>
        _remove_garbage_lines(dsts) = without_symbol_runs_and_repeats(dsts, 1)

\* the same for a list of more than one line, the empty lines left out of
\* the comparison: what is kept of the lines that are not blank
C22_NonBlankLinesKept ==
    (pc = "realign_return" /\ Len(dsts) > Len(srcs) /\ Len(dsts) > 1) =>
        non_empty_lines(_remove_garbage_lines(dsts))
            = non_empty_lines(without_symbol_runs_and_repeats(dsts, 1))

\* the number of lines the destination given to the call is short of
Shortfall == Len(srcs) - Len(dsts)

\* no line of the destination holds a newline (strategies 0A and 0B leave
\* the list as it is) and the counts of non-blank lines differ (no alignment
\* by position): for a short destination only the padding is left
OnlyPaddingApplies ==
    /\ \A i \in 1..Len(dsts) : ~contains_newline(dsts[i])
    /\ ~NonEmptyCountsMatch

PaddedAfterExpansion ==
    /\ pc = "realign_return"
    /\ Shortfall >= 4 /\ ~NonEmptyCountsMatch
    /\ Len(result) = Len(srcs)

\* final_merges of the first round of _try_merge_extra_lines and of
\* _try_aggressive_merge on the destination and the source of the call
MergeRound == select_merges(merge_candidates(dsts), {}, {}, 0, Len(dsts) - Len(srcs))

AggressiveRound ==
    select_merges(aggressive_candidates(dsts), {}, {}, 0, Len(dsts) - Len(srcs))

\* a round merges at most len(dsts) - len(srcs) pairs, no two of them
\* overlap, no line of a pair is blank, and it takes one line off per pair
round_is_bounded(final_merges) ==
    /\ Cardinality(final_merges) <= Len(dsts) - Len(srcs)
    /\ \A i, j \in final_merges : i # j => (i + 1 < j \/ j + 1 < i)
    /\ \A i \in final_merges :
          i + 1 <= Len(dsts) /\ ~is_blank(dsts[i]) /\ ~is_blank(dsts[i + 1])
    /\ Len(apply_merges(dsts, final_merges, 1)) = Len(dsts) - Cardinality(final_merges)

\* the list a merge returns, all rounds done, is not shorter than the source
\* and not longer than the list it was given
merged_within(merged) == Len(srcs) <= Len(merged) /\ Len(merged) <= Len(dsts)

\* C24: for a destination longer than the source, each round of the two
\* merges joins at most len(dsts) - len(srcs) non-overlapping pairs of
\* non-blank lines, and the merges end on a list that is not shorter than the
\* source.
C24_MergeBoundedBySource ==
    (pc = "realign_return" /\ Len(dsts) > Len(srcs)) =>
        /\ round_is_bounded(MergeRound)
        /\ round_is_bounded(AggressiveRound)
        /\ merged_within(_try_merge_extra_lines(dsts, srcs))
        /\ merged_within(_try_aggressive_merge(dsts, srcs))

\* C24 witness: a round that merges two pairs and is followed by further
\* rounds, down to the length of the source, in both merges
C24_Witness ==
    /\ pc = "realign_return"
    /\ Len(dsts) = 5 /\ Len(srcs) = 1
    /\ Cardinality(MergeRound) = 2
    /\ Cardinality(AggressiveRound) = 2
    /\ Len(_try_merge_extra_lines(dsts, srcs)) = 1
    /\ Len(_try_aggressive_merge(dsts, srcs)) = 1

\* the state of the scanner after the first i characters of the text
scan_state_after(s, i) == scan_loop(ScanState(<<>>, 0, 0, FALSE, FALSE), SubSeq(s, 1, i), 1)

\* quoted strings read off the characters themselves: whether the end of s
\* lies inside a double-quoted string, and whether a backslash there escapes
\* the next character
Lexical(inside, escaped) == [in_string |-> inside, escape |-> escaped]

lexical_step(l, ch) ==
    IF ~l.in_string THEN Lexical(ch = QUOTE, FALSE)
    ELSE IF l.escape THEN Lexical(TRUE, FALSE)
    ELSE IF ch = BACKSLASH THEN Lexical(TRUE, TRUE)
    ELSE Lexical(ch # QUOTE, FALSE)

RECURSIVE lexical_state(_)
lexical_state(s) ==
    IF s = <<>> THEN Lexical(FALSE, FALSE)
    ELSE lexical_step(lexical_state(SubSeq(s, 1, Len(s) - 1)), s[Len(s)])

ScannedText == flatten(raw_response)

\* the character at position i leaves the depth and the captures alone
leaves_capture_alone(s, i) ==
    /\ scan_state_after(s, i).depth = scan_state_after(s, i - 1).depth
    /\ scan_state_after(s, i).start = scan_state_after(s, i - 1).start
    /\ scan_state_after(s, i).objects = scan_state_after(s, i - 1).objects

\* C25 as stated: a brace inside a double-quoted string, wherever the string
\* occurs in the text, changes neither the depth nor the captures.
C25_BraceInAnyStringIsInert ==
    pc = "scan_return" =>
        \A i \in 1..Len(ScannedText) :
            (ScannedText[i] \in {LBRACE, RBRACE}
                /\ lexical_state(SubSeq(ScannedText, 1, i - 1)).in_string)
            => leaves_capture_alone(ScannedText, i)

\* the quoted strings of the object being captured: the characters from the
\* brace that opened the capture to position i - 1
captured_before(s, i) == SubSeq(s, scan_state_after(s, i - 1).start + 1, i - 1)

\* C25: inside an object being captured, a brace that lies in a
\* double-quoted string changes neither the depth nor the captures, and the
\* character after a backslash in such a string, a quote included, does not
\* end the string.
C25_BraceInCapturedStringIsInert ==
    pc = "scan_return" =>
        \A i \in 1..Len(ScannedText) :
            (scan_state_after(ScannedText, i - 1).depth > 0
                /\ lexical_state(captured_before(ScannedText, i)).in_string)
            => /\ ScannedText[i] \in {LBRACE, RBRACE}
                    => leaves_capture_alone(ScannedText, i)
               /\ lexical_state(captured_before(ScannedText, i)).escape
                    => (leaves_capture_alone(ScannedText, i)
                        /\ scan_state_after(ScannedText, i).in_string)

\* C25 witness: the object whose string holds an escaped quote and a brace
\* is returned whole
C25_Witness ==
    /\ pc = "scan_return"
    /\ raw_response = <<<<"x">>, <<LBRACE, QUOTE, "0", QUOTE, ":", QUOTE, BACKSLASH, QUOTE,
                                 LBRACE, QUOTE, RBRACE>>>>
    /\ result = <<raw_response[2]>>

\* the source of line i is present and the destination line checked for it,
\* the padded lines included, is blank
MissingTranslation(i) == strip(srcs[i]) # <<>> /\ is_blank(result.dsts[i])

\* the number of such lines up to position i
MissingUpTo(i) == Cardinality({j \in 1..i : MissingTranslation(j)})

\* check went on to check_lines: the batch is neither FAIL_DATA nor
\* retry-bypassed nor FAIL_LINE_COUNT
LinesWereChecked ==
    /\ pc = "check_return"
    /\ ~(dsts = <<>> \/ AllEmptyStrings(dsts))
    /\ ~SingleRetriedItem
    /\ Len(srcs) - Len(dsts) \in 0..3

\* C26: of the lines of a batch whose source is present and whose
\* destination is blank, the lines appended by the padding of check
\* included, the first 3 by position are NONE and every later one is
\* LINE_ERROR_EMPTY_LINE.
C26_FirstThreeMissingTolerated ==
    LinesWereChecked =>
        \A i \in 1..Len(srcs) :
            MissingTranslation(i) =>
                result.checks[i] = IF MissingUpTo(i) <= 3 THEN "NONE"
                                   ELSE "LINE_ERROR_EMPTY_LINE"

\* C26 witness: one line translated, one left blank and three appended by
\* the padding; the second padded line is the third missing translation and
\* passes, the third padded line is the fourth and does not
C26_Witness ==
    /\ LinesWereChecked
    /\ Len(srcs) = 5 /\ Len(dsts) = 2
    /\ \A i \in 2..5 : MissingTranslation(i)
    /\ result.checks = <<"NONE", "NONE", "NONE", "NONE", "LINE_ERROR_EMPTY_LINE">>

\* the source of line i is a non-empty string, blank or not, and the
\* destination line checked for it is blank
NonEmptySourceMissing(i) == srcs[i] # <<>> /\ is_blank(result.dsts[i])

NonEmptySourceMissingUpTo(i) ==
    Cardinality({j \in 1..i : NonEmptySourceMissing(j)})

\* C26 as stated: with "source is non-empty" read of the line as given,
\* a source of spaces included.
C26_NonEmptySourceCounted ==
    LinesWereChecked =>
        \A i \in 1..Len(srcs) :
            NonEmptySourceMissing(i) =>
                result.checks[i] = IF NonEmptySourceMissingUpTo(i) <= 3 THEN "NONE"
                                   ELSE "LINE_ERROR_EMPTY_LINE"

(***************************************************************************)
(* A sequence of decode and try_realign_to_sources calls on one            *)
(* ResponseDecoder, each call run to its end before the next one starts.   *)
(* calls records, for each call made, its name and whether it set          *)
(* _used_line_realignment itself.                                          *)
(***************************************************************************)
MaxSequenceCalls == 3
MaxSequenceLines == 2

\* the responses decoded and the lists realigned, in a sequence of calls
SequenceResponses ==
    { <<>>, <<ObjectLine(<<Translation(0, merged_value(2))>>)>>,
      <<ObjectLine(<<Translation(1, <<"z">>)>>)>> }
SequenceDstLines == { <<"-">>, <<"a", "\n", "b">> }
SequenceSrcLines == { <<"s">> }

\* __init__, lines 55-58: every flag starts False
InitSequence ==
    /\ pc = "constructed"
    /\ srcs = <<>>
    /\ dsts = <<>>
    /\ items = <<>>
    /\ config = NoConfig
    /\ used_line_realignment = FALSE
    /\ entry_flag = FALSE
    /\ result = <<>>
    /\ NoDecode

\* decoder.decode(response, ""): line 328 resets the flag
DecodeCall ==
    /\ Len(calls) < MaxSequenceCalls
    /\ \E text \in SequenceResponses :
          /\ response' = text
          /\ LET r == decode(text, response_think)
             IN /\ result' = r.dsts
                /\ used_thinking_fallback' = r.used_thinking_fallback
                /\ used_empty_line_cleanup' = r.used_empty_line_cleanup
    /\ used_line_realignment' = FALSE
    /\ entry_flag' = used_line_realignment
    /\ calls' = Append(calls, [name |-> "decode", repaired |-> FALSE])
    /\ pc' = "decode_return"
    /\ UNCHANGED <<srcs, dsts, items, config, response_think, raw_response,
                   used_codeblock_cleanup, API_KEY_INDEX>>

\* decoder.try_realign_to_sources(dsts, srcs): the flag is assigned True on
\* the paths that repair and is assigned nowhere else in the method
RealignCall ==
    /\ Len(calls) < MaxSequenceCalls
    /\ \E ds \in SeqsUpTo(SequenceDstLines, MaxSequenceLines),
          ss \in SeqsUpTo(SequenceSrcLines, MaxSequenceLines) :
          /\ dsts' = ds
          /\ srcs' = ss
          /\ result' = try_realign_to_sources(ds, ss).dsts
          /\ used_line_realignment' =
                 (used_line_realignment \/ try_realign_to_sources(ds, ss).used)
          /\ calls' = Append(calls, [name |-> "try_realign_to_sources",
                                     repaired |-> try_realign_to_sources(ds, ss).used])
    /\ entry_flag' = used_line_realignment
    /\ pc' = "realign_return"
    /\ UNCHANGED <<items, config, response, response_think, used_thinking_fallback,
                   used_empty_line_cleanup, raw_response, used_codeblock_cleanup,
                   API_KEY_INDEX>>

NextSequence == DecodeCall \/ RealignCall

SpecSequence == InitSequence /\ [][NextSequence]_vars

\* C27: after any sequence of decode and try_realign_to_sources calls on one
\* decoder that ends with a try_realign_to_sources call,
\* used_line_realignment is true if and only if that call applied a repair.
C27_FlagTellsLastRealign ==
    (pc = "realign_return" /\ calls # <<>>)
        => (used_line_realignment = calls[Len(calls)].repaired)

\* auxiliary: the flag tells whether some try_realign_to_sources call made
\* since the last decode call, or since construction, applied a repair
SinceLastDecode(i) ==
    \A j \in i..Len(calls) : calls[j].name = "try_realign_to_sources"

FlagTellsRepairSinceDecode ==
    pc \in {"decode_return", "realign_return"}
        => (used_line_realignment
                = \E i \in 1..Len(calls) : SinceLastDecode(i) /\ calls[i].repaired)

\* a call that repairs nothing follows, with no decode in between, a call
\* that repaired: the flag is still set
StaleFlagReached ==
    /\ pc = "realign_return"
    /\ Len(calls) >= 2
    /\ calls[Len(calls) - 1].name = "try_realign_to_sources"
    /\ calls[Len(calls) - 1].repaired
    /\ ~calls[Len(calls)].repaired
    /\ Len(srcs) = Len(dsts)
    /\ used_line_realignment

(***************************************************************************)
(* TaskRequester: the rotation of the API keys.  API_KEY_INDEX is an       *)
(* attribute of the class, shared by every requester; every call site of   *)
(* get_key holds TaskRequester.LOCK, so the calls run one after another.   *)
(* calls records each get_key call: its key list and the key it returned.  *)
(***************************************************************************)
MaxKeys == 3
MaxKeyCalls == 4

KeyNames == <<"k1", "k2", "k3", "k4", "k5">>

\* platform.get("api_key") of the platforms in use: lists of 0..MaxKeys keys
KeyLists == { SubSeq(KeyNames, 1, n) : n \in 0..MaxKeys }

\* keys[index] of Python for an index that is not negative
key_at(keys, index) ==
    IF index < Len(keys) THEN keys[index + 1] ELSE "IndexError"

\* get_key, lines 64-78: the key returned and the value API_KEY_INDEX is left with
get_key(keys, index) ==
    IF Len(keys) = 0 THEN [key |-> "no_key_required", index |-> index]
    ELSE IF Len(keys) = 1 THEN [key |-> keys[1], index |-> index]
    ELSE IF index >= Len(keys) - 1 THEN [key |-> keys[1], index |-> 0]
    ELSE [key |-> key_at(keys, index), index |-> index + 1]

InitKeys ==
    /\ pc = "loaded"
    /\ srcs = <<>>
    /\ dsts = <<>>
    /\ items = <<>>
    /\ config = NoConfig
    /\ used_line_realignment = FALSE
    /\ entry_flag = FALSE
    /\ result = <<>>
    /\ NoDecode

\* key = __class__.get_key(self.platform.get("api_key")), under LOCK
GetKey ==
    /\ Len(calls) < MaxKeyCalls
    /\ \E keys \in KeyLists :
          /\ result' = get_key(keys, API_KEY_INDEX).key
          /\ API_KEY_INDEX' = get_key(keys, API_KEY_INDEX).index
          /\ calls' = Append(calls, [keys |-> keys,
                                     key |-> get_key(keys, API_KEY_INDEX).key])
    /\ pc' = "get_key_return"
    /\ UNCHANGED <<srcs, dsts, items, config, used_line_realignment, entry_flag,
                   response, response_think, used_thinking_fallback,
                   used_empty_line_cleanup, raw_response, used_codeblock_cleanup>>

\* TaskRequester.reset, lines 57-61
Reset ==
    /\ API_KEY_INDEX' = 0
    /\ pc' = "reset_return"
    /\ UNCHANGED <<srcs, dsts, items, config, used_line_realignment, entry_flag, result,
                   response, response_think, used_thinking_fallback,
                   used_empty_line_cleanup, raw_response, used_codeblock_cleanup, calls>>

NextKeys == GetKey \/ Reset

SpecKeys == InitKeys /\ [][NextKeys]_vars

\* the calls i..j were all made with the key list keys
SameKeys(i, j, keys) == \A c \in i..j : calls[c].keys = keys

\* C28: for a list of n >= 2 keys, every key of the list is returned once
\* in every n consecutive get_key calls made with that list, and no call
\* indexes outside its list.
C28_RoundRobinOverAllKeys ==
    /\ \A c \in 1..Len(calls) : calls[c].key # "IndexError"
    /\ \A i \in 1..Len(calls) :
          LET keys == calls[i].keys
              n    == Len(keys)
          IN (n >= 2 /\ i + n - 1 <= Len(calls) /\ SameKeys(i, i + n - 1, keys))
                 => \A k \in 1..n :
                        Cardinality({c \in i..(i + n - 1) : calls[c].key = keys[k]}) = 1

\* auxiliary: no call indexes outside its list, whatever lists the earlier
\* calls were given, and the index stays below the longest list
C28_IndexStaysInside ==
    /\ \A c \in 1..Len(calls) : calls[c].key # "IndexError"
    /\ API_KEY_INDEX \in 0..(MaxKeys - 1)

\* auxiliary: the last key of a list of two or more keys is never returned
LastKeyNeverReturned ==
    \A c \in 1..Len(calls) :
        Len(calls[c].keys) >= 2 => calls[c].key # calls[c].keys[Len(calls[c].keys)]

\* a call with a list of two keys made when the index was left at 2 by calls
\* with a list of three
IndexLeftByLongerList ==
    /\ pc = "get_key_return"
    /\ Len(calls) >= 3
    /\ Len(calls[Len(calls) - 1].keys) = 3
    /\ calls[Len(calls) - 1].key = "k2"
    /\ Len(calls[Len(calls)].keys) = 2
    /\ result = "k1" /\ API_KEY_INDEX = 0

(***************************************************************************)
(* The glossary list returned by decode (SpecDecode).                      *)
(***************************************************************************)
RECURSIVE glossary_count(_)
glossary_count(objs) ==
    IF objs = <<>> THEN 0
    ELSE (IF is_glossary(Head(objs)) THEN 1 ELSE 0) + glossary_count(Tail(objs))

\* C29: decode returns exactly one glossary entry for each glossary object
\* that occurs in the response.
C29_OneEntryPerGlossaryObject ==
    pc = "decode_return"
        => Len(result.glossarys) = glossary_count(all_objects(response))

\* auxiliary: every glossary object is entered at least twice, once by the
\* per-line pass and once by the object scan, and at most three times
GlossaryEnteredTwiceOrThrice ==
    pc = "decode_return"
        => /\ Len(result.glossarys) >= 2 * glossary_count(all_objects(response))
           /\ Len(result.glossarys) <= 3 * glossary_count(all_objects(response))

\* one glossary object on a line of its own, after a translation line, is
\* returned twice
GlossaryReturnedTwice ==
    /\ pc = "decode_return"
    /\ response = <<ObjectLine(<<Translation(0, <<"a">>)>>), ObjectLine(<<GlossaryObject>>)>>
    /\ result.dsts = << <<"a">> >>
    /\ result.glossarys = <<glossary_entry(GlossaryObject), glossary_entry(GlossaryObject)>>

(***************************************************************************)
(* The lengths of what check returns (SpecCheck).                          *)
(***************************************************************************)
NoBatchFailure ==
    /\ pc = "check_return"
    /\ ~HasTag(result.checks, "FAIL_DATA")
    /\ ~HasTag(result.checks, "FAIL_LINE_COUNT")

\* C30 as stated: whenever check returns a classification without FAIL_DATA
\* and without FAIL_LINE_COUNT, the classification has one tag per source
\* line and the destination list returned with it has len(srcs) lines.
C30_AcceptedHasSourceLength ==
    NoBatchFailure
        => (Len(result.checks) = Len(srcs) /\ Len(result.dsts) = Len(srcs))

\* C30 amended: a classification without FAIL_DATA and without
\* FAIL_LINE_COUNT has one tag per source line; the destination list returned
\* with it has len(srcs) lines unless the batch is a single item retried 2
\* times or more, whose destination is returned as it was given, whatever
\* its length.
C30_AcceptedHasSourceLengthUnlessBypassed ==
    NoBatchFailure
        => /\ Len(result.checks) = Len(srcs)
           /\ IF SingleRetriedItem THEN result.dsts = dsts
              ELSE Len(result.dsts) = Len(srcs)

\* C30 witness: a destination three lines short, not bypassed, comes back
\* with a tag and a line for every source line
C30_Witness ==
    /\ NoBatchFailure
    /\ ~SingleRetriedItem
    /\ Len(srcs) = Len(dsts) + 3
    /\ Len(result.checks) = Len(srcs)
    /\ Len(result.dsts) = Len(srcs)
    /\ SubSeq(result.dsts, 1, Len(dsts)) = dsts

====
